---- MODULE Spec2Model ----
(***************************************************************************)
(* The aria2c download orchestration core of retrocast:                    *)
(*   src/src/retrocast/ariafetcher.py     (port, launch, readiness, kill)  *)
(*   src/src/retrocast/aria_downloader.py (AriaDownloader)                 *)
(* One AriaDownloader instance, its caller, and the aria2c subprocesses    *)
(* it spawns.  The subprocess moves its own tasks (waiting -> active ->    *)
(* stopped) concurrently with the orchestrator, so every remote call of    *)
(* the orchestrator is a separate step.                                    *)
(***************************************************************************)
EXTENDS Integers, Sequences, FiniteSets, TLC

\* ------------------------------------------------------------------ bounds
\* Number of distinct GIDs the subprocesses hand out.
NumGids == 2
\* Longest batch of URLs passed to one add_urls call.
MaxBatch == 2
\* Number of URLs submitted to subprocesses over the whole run.
MaxTasks == 2

\* Number of consecutive _rpc calls followed on their own.
MaxCalls == 2
\* Most attempts of xmlrpc_ready before its retry budget is spent.
MaxProbes == 3
\* Chunks of output the stdout pipe of a subprocess holds before a write to it
\* blocks (the pipe buffer of the operating system, in chunks).
PipeCapacity == 3

\* ------------------------------------------------------- program constants
\* attempts=5 of the stamina.retry decorator of start_aria2c_ephemeral_rpc.
MaxAttempts == 5
\* range(30_000, 60_999) of system_ephemeral_range.
FallbackStart == 30000
FallbackStop == 60999

GIDS == 1..NumGids

\* Python's None, and a present optional value.
None == <<>>
Some(v) == <<v>>

\* Python truthiness of an optional string ("if secret").
Truthy(s) == s # None /\ s[1] # ""

\* Candidate ports of the ephemeral range (random_port draws one of them).
PORTS == {30000}

\* The secrets a caller may configure (AriaDownloader.__init__, secret=).
SECRETS == {None, Some("s3cret")}

\* max_concurrent values a caller may configure (must be > 0).
CONCURRENCY == {2}

\* What the subprocess may have written on stderr when it exits by itself.
STDERRS == {"", "bind: EADDRINUSE\n"}

\* str.strip() on the stderr texts above.
Strip(s) == IF s = "bind: EADDRINUSE\n" THEN "bind: EADDRINUSE" ELSE s

\* Candidate URLs and what urllib.parse.urlparse makes of them.
URLS == {"https://ex.test/a.mp3", "HTTP://ex.test/b.mp3", "ftp://bad", "http:///nohost"}

urlparse(url) ==
    CASE url = "https://ex.test/a.mp3" -> [scheme |-> "https", netloc |-> "ex.test"]
      [] url = "HTTP://ex.test/b.mp3"  -> [scheme |-> "http",  netloc |-> "ex.test"]
      [] url = "ftp://bad"             -> [scheme |-> "ftp",   netloc |-> "bad"]
      [] url = "http:///nohost"        -> [scheme |-> "http",  netloc |-> ""]
      [] OTHER                         -> [scheme |-> "",      netloc |-> ""]

\* ValidUrl without the test of the host.
ValidUrl_SchemeOnly(url) == urlparse(url).scheme \in {"http", "https"}

\* The guard of add_urls, negated: the URL is submitted.
ValidUrl(url) ==
    ~(urlparse(url).scheme \notin {"http", "https"} \/ urlparse(url).netloc = "")

VARIABLES
    \* ---- AriaDownloader fields
    secret,             \* self.secret
    max_concurrent,     \* self.max_concurrent
    running,            \* self._running
    proc,               \* self._proc   (None or Some(pid))
    port,               \* self._port   (None or Some(port))
    client,             \* self._client (None or Some(port of the endpoint))
    tasks,              \* self._tasks with the tracker each TaskID names
    completed,          \* self._completed: gid -> record
    failed,             \* self._failed: gid -> record
    processed_stopped,  \* self._processed_stopped
    \* ---- the caller's position inside the operation in progress
    pc,                 \* "idle" between public operations, else the next step
    op,                 \* the public operation in progress
    attempt,            \* launch attempt of start_aria2c_ephemeral_rpc (1..5)
    urls,               \* add_urls: the items the loop has taken from its argument
    added,              \* add_urls: GIDs collected so far
    snap_active,        \* monitor_progress: result of tellActive
    snap_waiting,       \* monitor_progress: result of tellWaiting
    phase,              \* wait_for_completion: "loop" or "final"
    progress_started,   \* wait_for_completion: self._progress.start() .. stop()
    result,             \* outcome of the last public operation
    \* ---- environment
    installed,          \* whether an aria2c executable is on PATH
    procs,              \* the spawned processes that still exist, by pid
    cur,                \* pid of the process spawned last
    remote,             \* the serving subprocess's task table: gid -> status
    \* ---- observation of the operation in progress
    calls,              \* remote calls made by the operation, in order
    signals,            \* signals sent by the operation, in order
    log_skipped,        \* URLs add_urls logged as skipped
    poll_ret,           \* what the last monitor_progress call returned
    session_gids,       \* GIDs add_urls has returned since start() was last entered
    submitted,          \* number of aria2.addUri calls answered so far
    \* ---- the aria command driving the orchestrator
    cmd                 \* its position, local variables and outcome

orch == <<secret, max_concurrent, running, proc, port, client>>
colls == <<tasks, completed, failed, processed_stopped>>
addv == <<urls, added>>
pollv == <<snap_active, snap_waiting, phase, progress_started>>
ctl == <<pc, op, attempt, addv, pollv, result>>
env == <<installed, procs, cur, remote>>
obs == <<calls, signals, log_skipped, poll_ret, session_gids, submitted>>
vars == <<orch, colls, ctl, env, obs, cmd>>

\* An empty dict.
EmptyMap == [g \in {} |-> None]

\* dict assignment d[k] = v
Put(d, k, v) == [x \in DOMAIN d \cup {k} |-> IF x = k THEN v ELSE d[x]]

\* No aria command is running: the orchestrator is driven by any caller.
NoCommand ==
    [pc |-> "none", started |-> FALSE, via |-> "none", locals |-> None,
     rendered |-> None, exit |-> None]

NoResult == [op |-> "none", status |-> "none", value |-> None, err |-> None]
Returned(o, v) == [op |-> o, status |-> "ok", value |-> v, err |-> None]
Raised(o, e) == [op |-> o, status |-> "raise", value |-> None, err |-> e]

Init ==
    /\ secret \in SECRETS
    /\ max_concurrent \in CONCURRENCY
    /\ running = FALSE
    /\ proc = None
    /\ port = None
    /\ client = None
    /\ tasks = EmptyMap
    /\ completed = EmptyMap
    /\ failed = EmptyMap
    /\ processed_stopped = {}
    /\ pc = "idle"
    /\ op = "none"
    /\ attempt = 0
    /\ urls = <<>>
    /\ added = <<>>
    /\ snap_active = {}
    /\ snap_waiting = {}
    /\ phase = "none"
    /\ progress_started = FALSE
    /\ result = NoResult
    /\ installed \in BOOLEAN
    /\ procs = EmptyMap
    /\ cur = 1
    /\ remote = [g \in GIDS |-> "none"]
    /\ calls = <<>>
    /\ signals = <<>>
    /\ log_skipped = <<>>
    /\ poll_ret = None
    /\ session_gids = {}
    /\ submitted = 0
    /\ cmd = NoCommand

\* ------------------------------------------------------------ subprocesses
Pids == DOMAIN procs
Alive(pid) == pid \in Pids /\ procs[pid].alive

\* Whether something accepts TCP connections on 127.0.0.1:p.
Accepting(p) == \E pid \in Pids : procs[pid].alive /\ procs[pid].listening /\ procs[pid].port = p

\* Whether aria2.getVersion sent to 127.0.0.1:p is answered with a version
\* struct within the retry window of xmlrpc_ready.
Answering(p) ==
    \E pid \in Pids : /\ procs[pid].alive /\ procs[pid].listening
                      /\ procs[pid].answers /\ procs[pid].port = p

\* build_aria2c_cmd + subprocess.Popen: the new process, told its port and,
\* when a secret is configured, --rpc-secret; stdout=PIPE with nothing in the
\* pipe yet.
Spawned(p, s) ==
    [alive |-> TRUE, listening |-> FALSE, answers |-> FALSE, port |-> p,
     rpc_secret |-> IF Truthy(s) THEN s ELSE None,
     rc |-> None, stderr |-> "", piped |-> 0]

\* _kill without the kill() fallback: a process that ignores terminate() stays.
KillProcs_NoEscalation(ps, pid, inTime) ==
    IF ps[pid].alive /\ inTime
    THEN [ps EXCEPT ![pid].alive = FALSE, ![pid].listening = FALSE, ![pid].rc = Some(-15)]
    ELSE ps

\* _kill(proc): terminate(), wait up to 1.5 s, kill() if it has not exited.
\* inTime: whether the process exits within the grace period.
KillProcs(ps, pid, inTime) ==
    IF ps[pid].alive
    THEN [ps EXCEPT ![pid].alive = FALSE, ![pid].listening = FALSE,
                    ![pid].rc = IF inTime THEN Some(-15) ELSE Some(-9)]
    ELSE ps

\* The signals _kill(proc) sends: none to a process known to have exited.
KillSignals(ps, pid, inTime) ==
    IF ps[pid].alive
    THEN IF inTime THEN <<[pid |-> pid, sig |-> "TERM"]>>
         ELSE <<[pid |-> pid, sig |-> "TERM"], [pid |-> pid, sig |-> "KILL"]>>
    ELSE <<>>

\* The last reference to the Popen object of pid goes away: a process that has
\* exited is then gone for good (its pid may be used again), one that is
\* still alive stays.
Released(ps, pid) ==
    IF ps[pid].alive THEN ps ELSE [q \in DOMAIN ps \ {pid} |-> ps[q]]

\* The pid the operating system gives the next process.
FreshPid == CHOOSE n \in 1..(Cardinality(DOMAIN procs) + 1) : n \notin DOMAIN procs

\* The task table of a subprocess that has just started, or is gone.
NoTasks == [g \in GIDS |-> "none"]

\* The process of the launch attempt in progress (the last one spawned).
CurPid == cur
CurPort == procs[CurPid].port

\* The subprocess binds its RPC port and starts serving; it may be too slow
\* to answer RPC within the retry window of xmlrpc_ready.
ProcListen(pid) ==
    /\ Alive(pid)
    /\ ~procs[pid].listening
    /\ ~Accepting(procs[pid].port)
    /\ \E a \in BOOLEAN :
         procs' = [procs EXCEPT ![pid].listening = TRUE, ![pid].answers = a]
    /\ UNCHANGED <<orch, colls, ctl, installed, cur, remote, obs>>
    /\ UNCHANGED cmd

\* The subprocess exits by itself (port in use, crash); its tasks go with it.
ProcExit(pid) ==
    /\ Alive(pid)
    /\ \E e \in (IF procs[pid].listening THEN {""} ELSE STDERRS) :
         procs' = [procs EXCEPT ![pid].alive = FALSE, ![pid].listening = FALSE,
                                ![pid].rc = Some(1), ![pid].stderr = e]
    /\ remote' = IF pid = CurPid THEN NoTasks ELSE remote
    /\ UNCHANGED <<orch, colls, ctl, installed, cur, obs>>
    /\ UNCHANGED cmd

\* The serving subprocess starts a waiting task when a download slot is free.
Activate(g) ==
    /\ Alive(CurPid)
    /\ remote[g] = "waiting"
    /\ Cardinality({h \in GIDS : remote[h] = "active"}) < max_concurrent
    /\ remote' = [remote EXCEPT ![g] = "active"]
    /\ UNCHANGED <<orch, colls, ctl, installed, procs, cur, obs>>
    /\ UNCHANGED cmd

\* An active task of the serving subprocess stops, complete or in error.
Finish(g) ==
    /\ Alive(CurPid)
    /\ remote[g] = "active"
    /\ \E st \in {"complete", "error"} : remote' = [remote EXCEPT ![g] = st]
    /\ UNCHANGED <<orch, colls, ctl, installed, procs, cur, obs>>
    /\ UNCHANGED cmd

\* ------------------------------------------------------------------ start()
StateError(msg) == [kind |-> "state", msg |-> msg]

\* AriaDownloader.start on an orchestrator that is already running.
StartWhileRunning ==
    /\ pc = "idle"
    /\ running
    /\ result' = Raised("start", StateError("AriaDownloader has already been started"))
    /\ calls' = <<>>
    /\ signals' = <<>>
    /\ poll_ret' = None
    /\ UNCHANGED <<orch, colls, pc, op, attempt, addv, pollv, env, log_skipped, session_gids, submitted>>
    /\ UNCHANGED cmd

\* StartCall without the test of self._running.
StartCall_NoGuard ==
    /\ pc = "idle"
    /\ pc' = "spawn"
    /\ op' = "start"
    /\ attempt' = 1
    /\ result' = NoResult
    /\ calls' = <<>>
    /\ signals' = <<>>
    /\ poll_ret' = None
    /\ session_gids' = {}
    /\ UNCHANGED <<orch, colls, addv, pollv, env, log_skipped, submitted>>
    /\ UNCHANGED cmd

\* AriaDownloader.start, not running: enters start_aria2c_ephemeral_rpc.
StartCall ==
    /\ pc = "idle"
    /\ ~running
    /\ pc' = "spawn"
    /\ op' = "start"
    /\ attempt' = 1
    /\ result' = NoResult
    /\ calls' = <<>>
    /\ signals' = <<>>
    /\ poll_ret' = None
    /\ session_gids' = {}
    /\ UNCHANGED <<orch, colls, addv, pollv, env, log_skipped, submitted>>
    /\ UNCHANGED cmd

\* AttemptFailed with one retry too many.
AttemptFailed_OffByOne(e) ==
    IF attempt <= MaxAttempts
    THEN /\ attempt' = attempt + 1
         /\ pc' = "spawn"
         /\ UNCHANGED <<op, result>>
    ELSE /\ attempt' = 0
         /\ pc' = "idle"
         /\ op' = "none"
         /\ result' = Raised("start", e)

\* A launch attempt raised RuntimeError e: stamina retries it up to
\* MaxAttempts times, then re-raises it out of start().
AttemptFailed(e) ==
    IF attempt < MaxAttempts
    THEN /\ attempt' = attempt + 1
         /\ pc' = "spawn"
         /\ UNCHANGED <<op, result>>
    ELSE /\ attempt' = 0
         /\ pc' = "idle"
         /\ op' = "none"
         /\ result' = Raised("start", e)

\* port = random_port(); subprocess.Popen(...), aria2c is missing.
SpawnNotFound ==
    /\ pc = "spawn"
    /\ ~installed
    /\ AttemptFailed([kind |-> "not_found"])
    /\ UNCHANGED <<orch, colls, addv, pollv, env, obs>>
    /\ UNCHANGED cmd

\* port = random_port(); subprocess.Popen(...) starts a process.
Spawn ==
    /\ pc = "spawn"
    /\ installed
    /\ \E p \in PORTS : procs' = Put(procs, FreshPid, Spawned(p, secret))
    /\ cur' = FreshPid
    /\ remote' = NoTasks
    /\ pc' = "early"
    /\ calls' = <<>>
    /\ signals' = <<>>
    /\ UNCHANGED <<orch, colls, op, attempt, addv, pollv, result, installed,
                   log_skipped, poll_ret, session_gids, submitted>>
    /\ UNCHANGED cmd

\* time.sleep(0.1); proc.poll() is not None: the process has exited.
EarlyExit ==
    /\ pc = "early"
    /\ ~procs[CurPid].alive
    /\ AttemptFailed([kind |-> "exited_early", rc |-> procs[CurPid].rc[1],
                      port |-> CurPort, err |-> Strip(procs[CurPid].stderr)])
    /\ procs' = Released(procs, CurPid)
    /\ UNCHANGED <<orch, colls, addv, pollv, installed, cur, remote, obs>>
    /\ UNCHANGED cmd

\* time.sleep(0.1); proc.poll() is None: go on to the readiness probes.
EarlyAlive ==
    /\ pc = "early"
    /\ procs[CurPid].alive
    /\ pc' = "tcp"
    /\ UNCHANGED <<orch, colls, op, attempt, addv, pollv, result, env, obs>>
    /\ UNCHANGED cmd

\* TcpReady without waiting for the TCP probe to connect.
TcpReady_NoProbe ==
    /\ pc = "tcp"
    /\ pc' = "rpc"
    /\ UNCHANGED <<orch, colls, op, attempt, addv, pollv, result, env, obs>>
    /\ UNCHANGED cmd

\* tcp_ready(LOCALHOST, port) returns.
TcpReady ==
    /\ pc = "tcp"
    /\ Accepting(CurPort)
    /\ pc' = "rpc"
    /\ UNCHANGED <<orch, colls, op, attempt, addv, pollv, result, env, obs>>
    /\ UNCHANGED cmd

\* TcpExhausted without the _kill(proc) of the handler.
TcpExhausted_NoKill ==
    /\ pc = "tcp"
    /\ ~Accepting(CurPort)
    /\ AttemptFailed([kind |-> "tcp_not_ready", port |-> CurPort])
    /\ UNCHANGED <<orch, colls, addv, pollv, env, obs>>
    /\ UNCHANGED cmd

\* tcp_ready exhausts its retries: _kill(proc), RuntimeError.
TcpExhausted ==
    /\ pc = "tcp"
    /\ ~Accepting(CurPort)
    /\ \E inTime \in BOOLEAN :
         /\ procs' = Released(KillProcs(procs, CurPid, inTime), CurPid)
         /\ signals' = signals \o KillSignals(procs, CurPid, inTime)
    /\ remote' = NoTasks
    /\ AttemptFailed([kind |-> "tcp_not_ready", port |-> CurPort])
    /\ UNCHANGED <<orch, colls, addv, pollv, installed, cur, calls, log_skipped, poll_ret,
                   session_gids, submitted>>
    /\ UNCHANGED cmd

\* Token with "is not None" in place of the truthiness test.
Token_WhenNotNone(s) == IF s # None THEN Some("token:" \o s[1]) ELSE None

\* self._token, and the token xmlrpc_ready builds from the same secret.
Token(s) == IF Truthy(s) THEN Some("token:" \o s[1]) ELSE None

\* One remote call as it goes over the wire, with the reply it got.
RpcCall(method, args, reply) ==
    [method |-> method, token |-> Token(secret), args |-> args, reply |-> reply]

\* xmlrpc_ready(LOCALHOST, port, secret) returns; back in start():
\* self._proc, self._port, self._client, self._running are set.
XmlrpcReady ==
    /\ pc = "rpc"
    /\ Answering(CurPort)
    /\ calls' = Append(calls, RpcCall("aria2.getVersion", <<>>, "version"))
    /\ proc' = Some(CurPid)
    /\ port' = Some(CurPort)
    /\ client' = Some(CurPort)
    /\ running' = TRUE
    /\ pc' = "idle"
    /\ op' = "none"
    /\ attempt' = 0
    /\ result' = Returned("start", None)
    /\ UNCHANGED <<secret, max_concurrent, colls, addv, pollv, env, signals,
                   log_skipped, poll_ret, session_gids, submitted>>
    /\ UNCHANGED cmd

\* xmlrpc_ready exhausts its retries: _kill(proc), RuntimeError.
XmlrpcExhausted ==
    /\ pc = "rpc"
    /\ ~Answering(CurPort)
    /\ calls' = Append(calls, RpcCall("aria2.getVersion", <<>>,
                                      IF Accepting(CurPort) THEN "timeout" ELSE "refused"))
    /\ \E inTime \in BOOLEAN :
         /\ procs' = Released(KillProcs(procs, CurPid, inTime), CurPid)
         /\ signals' = signals \o KillSignals(procs, CurPid, inTime)
    /\ remote' = NoTasks
    /\ AttemptFailed([kind |-> "rpc_not_ready", port |-> CurPort])
    /\ UNCHANGED <<orch, colls, addv, pollv, installed, cur, log_skipped, poll_ret,
                   session_gids, submitted>>
    /\ UNCHANGED cmd

\* ------------------------------------------------------------------- stop()
\* AriaDownloader.stop, leaving self._running = r and self._client = c.
StopWith(r, c) ==
    /\ pc = "idle"
    /\ IF ~running
       THEN /\ signals' = <<>>
            /\ UNCHANGED <<running, proc, client, procs, remote>>
       ELSE /\ \E inTime \in BOOLEAN :
                 IF proc # None
                 THEN /\ procs' = Released(KillProcs(procs, proc[1], inTime), proc[1])
                      /\ signals' = KillSignals(procs, proc[1], inTime)
                 ELSE /\ procs' = procs
                      /\ signals' = <<>>
            /\ remote' = NoTasks
            /\ proc' = None
            /\ client' = c
            /\ running' = r
    /\ calls' = <<>>
    /\ poll_ret' = None
    /\ result' = Returned("stop", None)
    /\ UNCHANGED <<secret, max_concurrent, port, colls, pc, op, attempt, addv, pollv,
                   installed, cur, log_skipped, session_gids, submitted>>
    /\ UNCHANGED cmd

\* stop() that forgets self._running = False.
Stop_KeepsRunning == StopWith(running, None)

\* stop() that forgets self._client = None.
Stop_KeepsClient == StopWith(FALSE, client)

\* AriaDownloader.stop.
Stop == StopWith(FALSE, None)

\* ------------------------------------------------------------------- _rpc()
\* Whether the call reaches a live endpoint and is answered; otherwise
\* xmlrpc raises OSError / xmlrpc.client.Error, which _rpc turns into the
\* "aria2 RPC communication failed" RuntimeError.
RpcUp == client # None /\ Answering(client[1])

\* The RuntimeError _rpc raises for a call that did not go through.
RpcError(method) ==
    IF client = None
    THEN [kind |-> "rpc_not_initialized", method |-> method]
    ELSE [kind |-> "rpc_communication", method |-> method]

\* The calls on the wire after _rpc(method, args): none when there is no client.
Called(method, args, reply) ==
    IF client = None THEN calls ELSE Append(calls, RpcCall(method, args, reply))

\* --------------------------------------------------------------- add_urls()
\* add_urls on an orchestrator that is not running.
AddUrlsNotRunning ==
    /\ pc = "idle"
    /\ ~running
    /\ result' = Raised("add_urls", StateError("AriaDownloader must be started before adding URLs"))
    /\ calls' = <<>>
    /\ signals' = <<>>
    /\ poll_ret' = None
    /\ UNCHANGED <<orch, colls, pc, op, attempt, addv, pollv, env, log_skipped, session_gids, submitted>>
    /\ UNCHANGED cmd

\* GIDs the serving subprocess can still hand out.
FreeGids == {g \in GIDS : remote[g] = "none"}

\* add_urls(iterable) on a running orchestrator: enters the loop.
AddUrlsCall ==
    /\ pc = "idle"
    /\ running
    /\ pc' = "add"
    /\ op' = "add_urls"
    /\ urls' = <<>>
    /\ added' = <<>>
    /\ log_skipped' = <<>>
    /\ calls' = <<>>
    /\ signals' = <<>>
    /\ poll_ret' = None
    /\ result' = NoResult
    /\ UNCHANGED <<orch, colls, attempt, pollv, env, session_gids, submitted>>
    /\ UNCHANGED cmd

\* The options add_urls passes with every URL.
AddOptions == [dir |-> "directory", continue |-> "true", check_integrity |-> "true"]

\* One iteration of the loop, the iterable yields an invalid URL: logged and
\* skipped.
AddUrlsSkip(url) ==
    /\ pc = "add"
    /\ Len(urls) < MaxBatch
    /\ ~ValidUrl(url)
    /\ urls' = Append(urls, url)
    /\ log_skipped' = Append(log_skipped, url)
    /\ UNCHANGED <<orch, colls, pc, op, attempt, added, pollv, result, env,
                   calls, signals, poll_ret, session_gids, submitted>>
    /\ UNCHANGED cmd

\* One iteration of the loop, the iterable yields a valid URL: aria2.addUri
\* answers with a GID.
AddUrlsSubmit(url) ==
    /\ pc = "add"
    /\ Len(urls) < MaxBatch
    /\ submitted < MaxTasks
    /\ ValidUrl(url)
    /\ RpcUp
    /\ \E g \in FreeGids :
         /\ remote' = [remote EXCEPT ![g] = "waiting"]
         /\ added' = Append(added, g)
         /\ calls' = Called("aria2.addUri", <<url, AddOptions>>, g)
    /\ urls' = Append(urls, url)
    /\ submitted' = submitted + 1
    /\ UNCHANGED <<orch, colls, pc, op, attempt, pollv, result, installed, procs, cur,
                   signals, log_skipped, poll_ret, session_gids>>
    /\ UNCHANGED cmd

\* One iteration of the loop, the iterable yields a valid URL: the call fails
\* and add_urls raises.
AddUrlsRpcFails(url) ==
    /\ pc = "add"
    /\ Len(urls) < MaxBatch
    /\ ValidUrl(url)
    /\ ~RpcUp
    /\ result' = Raised("add_urls", RpcError("aria2.addUri"))
    /\ calls' = <<>>
    /\ log_skipped' = <<>>
    /\ urls' = <<>>
    /\ added' = <<>>
    /\ pc' = "idle"
    /\ op' = "none"
    /\ UNCHANGED <<orch, colls, attempt, pollv, env, signals, poll_ret, session_gids, submitted>>
    /\ UNCHANGED cmd

\* The iterable is exhausted: return added.
AddUrlsReturn ==
    /\ pc = "add"
    /\ result' = Returned("add_urls", added)
    /\ session_gids' = session_gids \cup {added[i] : i \in DOMAIN added}
    /\ calls' = <<>>
    /\ log_skipped' = <<>>
    /\ urls' = <<>>
    /\ added' = <<>>
    /\ pc' = "idle"
    /\ op' = "none"
    /\ UNCHANGED <<orch, colls, attempt, pollv, env, signals, poll_ret, submitted>>
    /\ UNCHANGED cmd

\* ------------------------------------------------- what the subprocess reports
\* The struct aria2 returns for task g in status st (the keys the orchestrator
\* reads).  Lengths are decimal strings; a task has no file path before it is
\* started and no error fields before it has stopped.
Entry(g, st) ==
    [gid |-> g,
     status |-> st,
     totalLength |-> IF st = "waiting" THEN Some("0") ELSE Some("1000"),
     completedLength |-> CASE st = "waiting" -> Some("0")
                           [] st = "complete" -> Some("1000")
                           [] OTHER -> Some("500"),
     path |-> IF st = "waiting" THEN "" ELSE "/dl/a.mp3",
     errorCode |-> CASE st = "complete" -> Some("0")
                     [] st = "error" -> Some("1")
                     [] OTHER -> None,
     errorMessage |-> IF st = "error" THEN Some("timeout") ELSE None]

\* The answers to aria2.tellActive, aria2.tellWaiting(0, 1000) and
\* aria2.tellStopped(0, 1000).
TellActiveReply == {Entry(g, remote[g]) : g \in {h \in GIDS : remote[h] = "active"}}
TellWaitingReply == {Entry(g, remote[g]) : g \in {h \in GIDS : remote[h] = "waiting"}}
TellStoppedReply ==
    {Entry(g, remote[g]) : g \in {h \in GIDS : remote[h] \in {"complete", "error"}}}

\* ------------------------------------------------------------ local helpers
\* _coerce_str(value, default)
coerce_str(value, default) == IF value = None THEN default ELSE value[1]

\* _coerce_int / _coerce_float on the decimal strings above.
coerce_int(value) ==
    CASE value = Some("1000") -> 1000
      [] value = Some("500") -> 500
      [] OTHER -> 0

\* Path(path_value).name
PathName(p) == IF p = "/dl/a.mp3" THEN "a.mp3" ELSE p

\* str.upper() on a status
Upper(st) ==
    CASE st = "waiting" -> "WAITING"
      [] st = "active" -> "ACTIVE"
      [] st = "complete" -> "COMPLETE"
      [] st = "error" -> "ERROR"
      [] OTHER -> st

\* _build_description: file name of the first reported path, else the GID.
build_description(entry, status) ==
    [filename |-> IF entry.path # "" THEN Some(PathName(entry.path)) ELSE None,
     gid |-> IF entry.path # "" THEN None ELSE Some(entry.gid),
     label |-> Upper(status)]

\* _ensure_task: one tracker per GID, created on first sight.
ensure_task(ts, entry, status) ==
    LET description == build_description(entry, status)
        done == coerce_int(entry.completedLength)
        tracker == IF entry.gid \in DOMAIN ts
                   THEN ts[entry.gid]
                   ELSE [description |-> description,
                         total |-> coerce_int(entry.totalLength),
                         completed |-> 0,
                         stopped |-> FALSE]
    IN Put(ts, entry.gid, [tracker EXCEPT !.description = description, !.completed = done])

\* _update_task_progress
update_task_progress(ts, entry) ==
    IF entry.gid \notin DOMAIN ts THEN ts
    ELSE LET done == coerce_int(entry.completedLength)
             total == coerce_int(entry.totalLength)
         IN IF total > 0
            THEN [ts EXCEPT ![entry.gid].completed = done, ![entry.gid].total = total]
            ELSE [ts EXCEPT ![entry.gid].completed = done]

\* StoppedRecord with the lengths' default "0" used for the error fields too.
StoppedRecord_ErrorDefaultZero(entry) ==
    [gid |-> entry.gid,
     path |-> entry.path,
     status |-> entry.status,
     totalLength |-> coerce_str(entry.totalLength, "0"),
     completedLength |-> coerce_str(entry.completedLength, "0"),
     errorCode |-> coerce_str(entry.errorCode, "0"),
     errorMessage |-> coerce_str(entry.errorMessage, "0")]

\* The record _process_stopped builds for a stopped entry.
StoppedRecord(entry) ==
    [gid |-> entry.gid,
     path |-> entry.path,
     status |-> entry.status,
     totalLength |-> coerce_str(entry.totalLength, "0"),
     completedLength |-> coerce_str(entry.completedLength, "0"),
     errorCode |-> coerce_str(entry.errorCode, ""),
     errorMessage |-> coerce_str(entry.errorMessage, "")]

\* The orchestrator's collections as one value.
Colls(ts, c, f, p) == [tasks |-> ts, completed |-> c, failed |-> f, processed |-> p]

\* The body of the loop of _process_stopped for an entry not seen before:
\* mark it processed, build the record, stop the tracker, route the record.
record_stopped(st, entry) ==
    LET record == StoppedRecord(entry)
        ts == IF entry.gid \in DOMAIN st.tasks
              THEN [st.tasks EXCEPT
                      ![entry.gid].description = build_description(entry, entry.status),
                      ![entry.gid].stopped = TRUE]
              ELSE st.tasks
    IN IF entry.status = "complete"
       THEN Colls(ts, Put(st.completed, entry.gid, record), st.failed,
                  st.processed \cup {entry.gid})
       ELSE Colls(ts, st.completed, Put(st.failed, entry.gid, record),
                  st.processed \cup {entry.gid})

\* The loop body without the test of self._processed_stopped.
process_stopped_entry_NoSeenCheck(st, entry) == record_stopped(st, entry)

\* The body of the loop of _process_stopped for one entry.
process_stopped_entry(st, entry) ==
    IF entry.gid \in st.processed THEN st ELSE record_stopped(st, entry)

\* for entry in entries: ... (entries of one reply have distinct GIDs)
RECURSIVE process_stopped(_, _)
process_stopped(st, entries) ==
    IF entries = {} THEN st
    ELSE LET e == CHOOSE x \in entries : TRUE
         IN process_stopped(process_stopped_entry(st, e), entries \ {e})

RECURSIVE ensure_waiting(_, _)
ensure_waiting(ts, entries) ==
    IF entries = {} THEN ts
    ELSE LET e == CHOOSE x \in entries : TRUE
         IN ensure_waiting(ensure_task(ts, e, "waiting"), entries \ {e})

RECURSIVE ensure_active(_, _)
ensure_active(ts, entries) ==
    IF entries = {} THEN ts
    ELSE LET e == CHOOSE x \in entries : TRUE
         IN ensure_active(update_task_progress(ensure_task(ts, e, "active"), e), entries \ {e})

\* Reconcile with the stopped entries processed before the waiting and active
\* ones.
Reconcile_StoppedFirst(active, waiting, stopped) ==
    LET st == process_stopped(Colls(tasks, completed, failed, processed_stopped), stopped)
    IN Colls(ensure_active(ensure_waiting(st.tasks, waiting), active),
             st.completed, st.failed, st.processed)

\* The local part of monitor_progress, after the three replies are in.
Reconcile(active, waiting, stopped) ==
    process_stopped(
        Colls(ensure_active(ensure_waiting(tasks, waiting), active),
              completed, failed, processed_stopped),
        stopped)

\* StillRunning with a poll that always reports work in progress.
StillRunning_Always(active, waiting) == active = active /\ waiting = waiting

\* return bool(active or waiting)
StillRunning(active, waiting) == active # {} \/ waiting # {}

\* get_results on given collections.
Results(c, f) ==
    [completed |-> {c[g] : g \in DOMAIN c}, failed |-> {f[g] : g \in DOMAIN f}]

\* ------------------------------------- monitor_progress, wait_for_completion
\* monitor_progress on an orchestrator that is not running.
MonitorNotRunning ==
    /\ pc = "idle"
    /\ ~running
    /\ result' = Raised("monitor_progress", StateError("AriaDownloader is not running"))
    /\ calls' = <<>>
    /\ signals' = <<>>
    /\ poll_ret' = None
    /\ UNCHANGED <<orch, colls, pc, op, attempt, addv, pollv, env, log_skipped, session_gids, submitted>>
    /\ UNCHANGED cmd

\* wait_for_completion on an orchestrator that is not running.
WaitNotRunning ==
    /\ pc = "idle"
    /\ ~running
    /\ result' = Raised("wait_for_completion", StateError("AriaDownloader has not been started"))
    /\ calls' = <<>>
    /\ signals' = <<>>
    /\ poll_ret' = None
    /\ UNCHANGED <<orch, colls, pc, op, attempt, addv, pollv, env, log_skipped, session_gids, submitted>>
    /\ UNCHANGED cmd

\* MonitorCall without the test of self._running.
MonitorCall_NoGuard ==
    /\ pc = "idle"
    /\ pc' = "tellActive"
    /\ op' = "monitor_progress"
    /\ result' = NoResult
    /\ calls' = <<>>
    /\ signals' = <<>>
    /\ poll_ret' = None
    /\ UNCHANGED <<orch, colls, attempt, addv, pollv, env, log_skipped, session_gids, submitted>>
    /\ UNCHANGED cmd

\* monitor_progress called directly on a running orchestrator.
MonitorCall ==
    /\ pc = "idle"
    /\ running
    /\ pc' = "tellActive"
    /\ op' = "monitor_progress"
    /\ result' = NoResult
    /\ calls' = <<>>
    /\ signals' = <<>>
    /\ poll_ret' = None
    /\ UNCHANGED <<orch, colls, attempt, addv, pollv, env, log_skipped, session_gids, submitted>>
    /\ UNCHANGED cmd

\* wait_for_completion on a running orchestrator: progress.start(), first poll.
WaitCall ==
    /\ pc = "idle"
    /\ running
    /\ pc' = "tellActive"
    /\ op' = "wait_for_completion"
    /\ phase' = "loop"
    /\ progress_started' = TRUE
    /\ result' = NoResult
    /\ calls' = <<>>
    /\ signals' = <<>>
    /\ poll_ret' = None
    /\ UNCHANGED <<orch, colls, attempt, addv, snap_active, snap_waiting, env,
                   log_skipped, session_gids, submitted>>
    /\ UNCHANGED cmd

\* active = _collect_entries(self._rpc("aria2.tellActive"))
TellActive ==
    /\ pc = "tellActive"
    /\ RpcUp
    /\ snap_active' = TellActiveReply
    /\ calls' = <<RpcCall("aria2.tellActive", <<>>, TellActiveReply)>>
    /\ poll_ret' = None
    /\ pc' = "tellWaiting"
    /\ UNCHANGED <<orch, colls, op, attempt, addv, snap_waiting, phase, progress_started,
                   result, env, signals, log_skipped, session_gids, submitted>>
    /\ UNCHANGED cmd

\* waiting = _collect_entries(self._rpc("aria2.tellWaiting", 0, 1000))
TellWaiting ==
    /\ pc = "tellWaiting"
    /\ RpcUp
    /\ snap_waiting' = TellWaitingReply
    /\ calls' = Called("aria2.tellWaiting", <<0, 1000>>, TellWaitingReply)
    /\ pc' = "tellStopped"
    /\ UNCHANGED <<orch, colls, op, attempt, addv, snap_active, phase, progress_started,
                   result, env, signals, log_skipped, poll_ret, session_gids, submitted>>
    /\ UNCHANGED cmd

\* TellStopped with wait_for_completion returning as soon as a poll reports
\* not running, without the final poll.
TellStopped_NoFinalPoll ==
    /\ pc = "tellStopped"
    /\ RpcUp
    /\ LET after == Reconcile(snap_active, snap_waiting, TellStoppedReply)
           ret == StillRunning(snap_active, snap_waiting)
       IN /\ tasks' = after.tasks
          /\ completed' = after.completed
          /\ failed' = after.failed
          /\ processed_stopped' = after.processed
          /\ poll_ret' = Some(ret)
          /\ IF op = "monitor_progress"
             THEN /\ result' = Returned("monitor_progress", ret)
                  /\ pc' = "idle"
                  /\ op' = "none"
                  /\ UNCHANGED <<phase, progress_started>>
             ELSE IF ret
             THEN /\ pc' = "tellActive"
                  /\ UNCHANGED <<op, result, phase, progress_started>>
             ELSE /\ result' = Returned("wait_for_completion",
                                        Results(after.completed, after.failed))
                  /\ pc' = "idle"
                  /\ op' = "none"
                  /\ phase' = "none"
                  /\ progress_started' = FALSE
    /\ calls' = Called("aria2.tellStopped", <<0, 1000>>, TellStoppedReply)
    /\ snap_active' = {}
    /\ snap_waiting' = {}
    /\ UNCHANGED <<orch, attempt, addv, env, signals, log_skipped, session_gids, submitted>>
    /\ UNCHANGED cmd

\* stopped = _collect_entries(self._rpc("aria2.tellStopped", 0, 1000)), then the
\* rest of monitor_progress, which is local, and what its caller does with the
\* value it returns.
TellStopped ==
    /\ pc = "tellStopped"
    /\ RpcUp
    /\ LET after == Reconcile(snap_active, snap_waiting, TellStoppedReply)
           ret == StillRunning(snap_active, snap_waiting)
       IN /\ tasks' = after.tasks
          /\ completed' = after.completed
          /\ failed' = after.failed
          /\ processed_stopped' = after.processed
          /\ poll_ret' = Some(ret)
          /\ IF op = "monitor_progress"
             THEN /\ result' = Returned("monitor_progress", ret)
                  /\ pc' = "idle"
                  /\ op' = "none"
                  /\ UNCHANGED <<phase, progress_started>>
             ELSE IF phase = "loop"
             THEN /\ pc' = "tellActive"
                  /\ phase' = IF ret THEN "loop" ELSE "final"
                  /\ UNCHANGED <<op, result, progress_started>>
             ELSE /\ result' = Returned("wait_for_completion",
                                        Results(after.completed, after.failed))
                  /\ pc' = "idle"
                  /\ op' = "none"
                  /\ phase' = "none"
                  /\ progress_started' = FALSE
    /\ calls' = Called("aria2.tellStopped", <<0, 1000>>, TellStoppedReply)
    /\ snap_active' = {}
    /\ snap_waiting' = {}
    /\ UNCHANGED <<orch, attempt, addv, env, signals, log_skipped, session_gids, submitted>>
    /\ UNCHANGED cmd

\* The remote method the poll is about to call.
PollMethod ==
    CASE pc = "tellActive" -> "aria2.tellActive"
      [] pc = "tellWaiting" -> "aria2.tellWaiting"
      [] OTHER -> "aria2.tellStopped"

\* PollRpcFails with the waiting entries fetched so far already registered
\* when the call fails.
PollRpcFails_PartialUpdate ==
    /\ pc \in {"tellActive", "tellWaiting", "tellStopped"}
    /\ ~RpcUp
    /\ result' = Raised(op, RpcError(PollMethod))
    /\ pc' = "idle"
    /\ op' = "none"
    /\ phase' = "none"
    /\ progress_started' = FALSE
    /\ snap_active' = {}
    /\ snap_waiting' = {}
    /\ poll_ret' = None
    /\ tasks' = ensure_waiting(tasks, snap_waiting)
    /\ UNCHANGED <<orch, completed, failed, processed_stopped, attempt, addv, env, calls,
                   signals, log_skipped, session_gids, submitted>>
    /\ UNCHANGED cmd

\* One of the three calls of a poll fails: monitor_progress raises, and so does
\* wait_for_completion around it (finally: progress.stop()).
PollRpcFails ==
    /\ pc \in {"tellActive", "tellWaiting", "tellStopped"}
    /\ ~RpcUp
    /\ result' = Raised(op, RpcError(PollMethod))
    /\ pc' = "idle"
    /\ op' = "none"
    /\ phase' = "none"
    /\ progress_started' = FALSE
    /\ snap_active' = {}
    /\ snap_waiting' = {}
    /\ poll_ret' = None
    /\ UNCHANGED <<orch, colls, attempt, addv, env, calls, signals, log_skipped, session_gids, submitted>>
    /\ UNCHANGED cmd

\* get_results handing out the completed records only.
GetResults_CompletedOnly ==
    /\ pc = "idle"
    /\ result' = Returned("get_results", Results(completed, EmptyMap))
    /\ calls' = <<>>
    /\ signals' = <<>>
    /\ poll_ret' = None
    /\ UNCHANGED <<orch, colls, pc, op, attempt, addv, pollv, env, log_skipped, session_gids, submitted>>
    /\ UNCHANGED cmd

\* get_results
GetResults ==
    /\ pc = "idle"
    /\ result' = Returned("get_results", Results(completed, failed))
    /\ calls' = <<>>
    /\ signals' = <<>>
    /\ poll_ret' = None
    /\ UNCHANGED <<orch, colls, pc, op, attempt, addv, pollv, env, log_skipped, session_gids, submitted>>
    /\ UNCHANGED cmd

\* ---------------------------------------------------------------------- Next
Next ==
    \/ StartWhileRunning
    \/ StartCall
    \/ SpawnNotFound
    \/ Spawn
    \/ EarlyExit
    \/ EarlyAlive
    \/ TcpReady
    \/ TcpExhausted
    \/ XmlrpcReady
    \/ XmlrpcExhausted
    \/ Stop
    \/ AddUrlsNotRunning
    \/ AddUrlsCall
    \/ \E url \in URLS : AddUrlsSkip(url)
    \/ \E url \in URLS : AddUrlsSubmit(url)
    \/ \E url \in URLS : AddUrlsRpcFails(url)
    \/ AddUrlsReturn
    \/ MonitorNotRunning
    \/ WaitNotRunning
    \/ MonitorCall
    \/ WaitCall
    \/ TellActive
    \/ TellWaiting
    \/ TellStopped
    \/ PollRpcFails
    \/ GetResults
    \/ \E pid \in Pids : ProcListen(pid)
    \/ \E pid \in Pids : ProcExit(pid)
    \/ \E g \in GIDS : Activate(g)
    \/ \E g \in GIDS : Finish(g)

Spec == Init /\ [][Next]_vars

\* ------------------------------------------- _process_stopped on any reply
\* The shapes of struct aria2.tellStopped may report for a task: status,
\* totalLength, completedLength, errorCode, errorMessage present or not, and
\* the "files" list with or without a path in each file struct.
StoppedShapes ==
    {[status |-> Some("complete"), totalLength |-> Some("1000"),
      completedLength |-> Some("1000"), files |-> <<Some("/dl/a.mp3")>>,
      errorCode |-> Some("0"), errorMessage |-> None],
     [status |-> Some("error"), totalLength |-> Some("1000"),
      completedLength |-> Some("500"), files |-> <<Some("/dl/a.mp3"), Some("/dl/b.mp3")>>,
      errorCode |-> Some("1"), errorMessage |-> Some("timeout")],
     [status |-> Some("removed"), totalLength |-> Some("0"),
      completedLength |-> Some("0"), files |-> <<>>,
      errorCode |-> None, errorMessage |-> None],
     [status |-> None, totalLength |-> None,
      completedLength |-> None, files |-> <<None, Some("/dl/b.mp3")>>,
      errorCode |-> None, errorMessage |-> None],
     [status |-> Some("Complete"), totalLength |-> Some("1000"),
      completedLength |-> Some("1000"), files |-> <<Some("")>>,
      errorCode |-> Some("0"), errorMessage |-> Some("")],
     [status |-> Some("complete"), totalLength |-> Some("0"),
      completedLength |-> None, files |-> <<>>,
      errorCode |-> None, errorMessage |-> None]}

\* The struct reported for GID g in shape sh.
Reported(g, sh) ==
    [gid |-> g, status |-> sh.status, totalLength |-> sh.totalLength,
     completedLength |-> sh.completedLength, files |-> sh.files,
     errorCode |-> sh.errorCode, errorMessage |-> sh.errorMessage]

\* The loop over _extract_file_entries(entry) of _process_stopped: the path of
\* the first file struct that has one (a string, empty or not), else "".
first_path(files) ==
    LET withPath == {i \in DOMAIN files : files[i] # None}
    IN IF withPath = {} THEN ""
       ELSE files[CHOOSE i \in withPath : \A j \in withPath : i <= j][1]

\* What _process_stopped reads out of a reported struct: the GID, the status
\* (default "unknown"), the path, and the fields it copies.
stopped_entry(raw) ==
    [gid |-> raw.gid,
     status |-> coerce_str(raw.status, "unknown"),
     totalLength |-> raw.totalLength,
     completedLength |-> raw.completedLength,
     path |-> first_path(raw.files),
     errorCode |-> raw.errorCode,
     errorMessage |-> raw.errorMessage]

\* The replies aria2.tellStopped may give: structs of distinct GIDs.
StoppedBatches ==
    {{Reported(g, sh)} : g \in GIDS, sh \in StoppedShapes}
    \cup {{Reported(g[1], sh[1]), Reported(g[2], sh[2])} :
            g \in {h \in GIDS \X GIDS : h[1] < h[2]},
            sh \in StoppedShapes \X StoppedShapes}

\* A fresh orchestrator with no secret.
InitStopped == Init /\ secret = None /\ installed = TRUE

\* self._process_stopped(stopped) on the reply raws.
ProcessStopped(raws) ==
    /\ LET after == process_stopped(Colls(tasks, completed, failed, processed_stopped),
                                    {stopped_entry(r) : r \in raws})
       IN /\ tasks' = after.tasks
          /\ completed' = after.completed
          /\ failed' = after.failed
          /\ processed_stopped' = after.processed
    /\ calls' = <<RpcCall("aria2.tellStopped", <<0, 1000>>, raws)>>
    /\ UNCHANGED <<orch, ctl, env, signals, log_skipped, poll_ret, session_gids, submitted>>
    /\ UNCHANGED cmd

NextStopped == \E raws \in StoppedBatches : ProcessStopped(raws)

SpecStopped == InitStopped /\ [][NextStopped]_vars

\* ------------------------------------------------ any secret a caller passes
\* The --secret option is any string: the empty one too.
ANY_SECRETS == SECRETS \cup {Some("")}

\* A fresh orchestrator constructed with a secret given on the command line.
InitSecret ==
    /\ secret \in ANY_SECRETS \ {None}
    /\ max_concurrent \in CONCURRENCY
    /\ running = FALSE
    /\ proc = None
    /\ port = None
    /\ client = None
    /\ tasks = EmptyMap
    /\ completed = EmptyMap
    /\ failed = EmptyMap
    /\ processed_stopped = {}
    /\ pc = "idle"
    /\ op = "none"
    /\ attempt = 0
    /\ urls = <<>>
    /\ added = <<>>
    /\ snap_active = {}
    /\ snap_waiting = {}
    /\ phase = "none"
    /\ progress_started = FALSE
    /\ result = NoResult
    /\ installed \in BOOLEAN
    /\ procs = EmptyMap
    /\ cur = 1
    /\ remote = [g \in GIDS |-> "none"]
    /\ calls = <<>>
    /\ signals = <<>>
    /\ log_skipped = <<>>
    /\ poll_ret = None
    /\ session_gids = {}
    /\ submitted = 0
    /\ cmd = NoCommand

SpecSecret == InitSecret /\ [][Next]_vars

\* ---------------------------------------------------- _rpc, call by call
\* The exceptions getattr(self._client, method)(*params) raises when the call
\* does not go through: refused or reset connection, socket timeout, HTTP
\* status other than 200, XML-RPC fault, incomplete XML-RPC response, HTTP
\* reply that is not HTTP, body that is not well-formed XML.
RPC_EXCEPTIONS ==
    {"ConnectionRefusedError", "ConnectionResetError", "TimeoutError",
     "xmlrpc.client.ProtocolError", "xmlrpc.client.Fault", "xmlrpc.client.ResponseError",
     "http.client.BadStatusLine", "xml.parsers.expat.ExpatError"}

\* The classes each of them is an instance of, besides Exception.
ExcClasses(exc) ==
    CASE exc \in {"ConnectionRefusedError", "ConnectionResetError"} ->
             {exc, "ConnectionError", "OSError"}
      [] exc \in {"TimeoutError", "ConnectionError"} -> {exc, "OSError"}
      [] exc \in {"xmlrpc.client.ProtocolError", "xmlrpc.client.Fault",
                  "xmlrpc.client.ResponseError"} -> {exc, "xmlrpc.client.Error"}
      [] exc = "http.client.BadStatusLine" -> {exc, "http.client.HTTPException"}
      [] OTHER -> {exc}

\* except (xmlrpc.client.Error, OSError) as exc
RpcCatches(exc) == ExcClasses(exc) \cap {"xmlrpc.client.Error", "OSError"} # {}

\* What leaves _rpc(method) when the client raised exc: the RuntimeError
\* "aria2 RPC communication failed" from exc, or exc itself when the except
\* clause does not match it.
rpc_raises(method, exc) ==
    IF RpcCatches(exc)
    THEN [type |-> "RuntimeError", kind |-> "rpc_communication", method |-> method,
          cause |-> Some(exc)]
    ELSE [type |-> exc, kind |-> exc, method |-> method, cause |-> None]

\* The remote methods the orchestrator calls through _rpc.
RPC_METHODS == {"aria2.addUri", "aria2.tellActive", "aria2.tellWaiting", "aria2.tellStopped"}

\* An orchestrator that start() has just brought up.
InitRpc ==
    /\ secret \in SECRETS
    /\ max_concurrent \in CONCURRENCY
    /\ running = TRUE
    /\ proc = Some(1)
    /\ port \in {Some(p) : p \in PORTS}
    /\ client = port
    /\ tasks = EmptyMap
    /\ completed = EmptyMap
    /\ failed = EmptyMap
    /\ processed_stopped = {}
    /\ pc = "idle"
    /\ op = "none"
    /\ attempt = 0
    /\ urls = <<>>
    /\ added = <<>>
    /\ snap_active = {}
    /\ snap_waiting = {}
    /\ phase = "none"
    /\ progress_started = FALSE
    /\ result = Returned("start", None)
    /\ installed = TRUE
    /\ procs = [pid \in {1} |->
                  [Spawned(port[1], secret) EXCEPT !.listening = TRUE, !.answers = TRUE]]
    /\ cur = 1
    /\ remote = [g \in GIDS |-> "none"]
    /\ calls = <<RpcCall("aria2.getVersion", <<>>, "version")>>
    /\ signals = <<>>
    /\ log_skipped = <<>>
    /\ poll_ret = None
    /\ session_gids = {}
    /\ submitted = 0
    /\ cmd = NoCommand

\* self._rpc(method): the call is answered and _rpc returns the answer.
RpcReturns(method) ==
    /\ Len(calls) <= MaxCalls
    /\ client # None
    /\ calls' = Append(calls, RpcCall(method, <<>>, "answer"))
    /\ result' = Returned("_rpc", "answer")
    /\ UNCHANGED <<orch, colls, pc, op, attempt, addv, pollv, env,
                   signals, log_skipped, poll_ret, session_gids, submitted>>
    /\ UNCHANGED cmd

\* self._rpc(method): the client raises exc.
RpcRaises(method, exc) ==
    /\ Len(calls) <= MaxCalls
    /\ client # None
    /\ calls' = Append(calls, RpcCall(method, <<>>, exc))
    /\ result' = Raised("_rpc", rpc_raises(method, exc))
    /\ UNCHANGED <<orch, colls, pc, op, attempt, addv, pollv, env,
                   signals, log_skipped, poll_ret, session_gids, submitted>>
    /\ UNCHANGED cmd

NextRpc ==
    \/ \E method \in RPC_METHODS : RpcReturns(method)
    \/ \E method \in RPC_METHODS : \E exc \in RPC_EXCEPTIONS : RpcRaises(method, exc)

SpecRpc == InitRpc /\ [][NextRpc]_vars

\* ------------------------------------------------------- the aria command
\* download_commands.aria from "downloader = AriaDownloader(...)" on: the URLs
\* it passes are the valid ones of its input, at least one.
InitAria ==
    /\ secret \in SECRETS
    /\ max_concurrent \in CONCURRENCY
    /\ running = FALSE
    /\ proc = None
    /\ port = None
    /\ client = None
    /\ tasks = EmptyMap
    /\ completed = EmptyMap
    /\ failed = EmptyMap
    /\ processed_stopped = {}
    /\ pc = "idle"
    /\ op = "none"
    /\ attempt = 0
    /\ urls = <<>>
    /\ added = <<>>
    /\ snap_active = {}
    /\ snap_waiting = {}
    /\ phase = "none"
    /\ progress_started = FALSE
    /\ result = NoResult
    /\ installed \in BOOLEAN
    /\ procs = EmptyMap
    /\ cur = 1
    /\ remote = [g \in GIDS |-> "none"]
    /\ calls = <<>>
    /\ signals = <<>>
    /\ log_skipped = <<>>
    /\ poll_ret = None
    /\ session_gids = {}
    /\ submitted = 0
    /\ cmd = [NoCommand EXCEPT !.pc = "start"]

\* Everything but the command's own variables stays as it is.
CmdOnly == UNCHANGED <<orch, colls, ctl, env, obs>>

\* The method of the downloader the try block calls at each position.
CmdOp(at) ==
    CASE at = "start" -> "start"
      [] at = "add" -> "add_urls"
      [] at = "wait" -> "wait_for_completion"
      [] OTHER -> "none"

\* try: downloader.start()
AriaStart == cmd.pc = "start" /\ result.op # "start" /\ StartCall

\* start() returned: on to downloader.add_urls(urls)
AriaStarted ==
    /\ cmd.pc = "start"
    /\ pc = "idle"
    /\ result.op = "start"
    /\ result.status = "ok"
    /\ cmd' = [cmd EXCEPT !.pc = "add", !.started = TRUE]
    /\ CmdOnly

\* downloader.add_urls(urls)
AriaAdd == cmd.pc = "add" /\ result.op # "add_urls" /\ AddUrlsCall

\* add_urls returned: on to wait_for_completion
AriaAdded ==
    /\ cmd.pc = "add"
    /\ pc = "idle"
    /\ result.op = "add_urls"
    /\ result.status = "ok"
    /\ cmd' = [cmd EXCEPT !.pc = "wait"]
    /\ CmdOnly

\* completed, failed = downloader.wait_for_completion()
AriaWait == cmd.pc = "wait" /\ result.op # "wait_for_completion" /\ WaitCall

\* wait_for_completion returned: the try block is left normally.
AriaWaited ==
    /\ cmd.pc = "wait"
    /\ pc = "idle"
    /\ result.op = "wait_for_completion"
    /\ result.status = "ok"
    /\ cmd' = [cmd EXCEPT !.pc = "finally", !.via = "normal", !.locals = Some(result.value)]
    /\ CmdOnly

\* AriaRuntimeError with ctx.exit(1) leaving the command at once.
AriaRuntimeError_ExitsAtOnce ==
    /\ cmd.pc \in {"start", "add", "wait"}
    /\ pc = "idle"
    /\ result.op = CmdOp(cmd.pc)
    /\ result.status = "raise"
    /\ cmd' = [cmd EXCEPT !.pc = "exited", !.via = "error", !.exit = Some(1)]
    /\ CmdOnly

\* except RuntimeError: print, log, ctx.exit(1) -- which raises out of the
\* handler, through the finally clause.
AriaRuntimeError ==
    /\ cmd.pc \in {"start", "add", "wait"}
    /\ pc = "idle"
    /\ result.op = CmdOp(cmd.pc)
    /\ result.status = "raise"
    /\ cmd' = [cmd EXCEPT !.pc = "finally", !.via = "error", !.exit = Some(1)]
    /\ CmdOnly

\* Ctrl-C while add_urls or wait_for_completion runs: KeyboardInterrupt leaves
\* the operation where it is (wait_for_completion's finally stops the progress
\* display) and arrives in the command's handler.
KeyboardInterrupt ==
    /\ cmd.pc \in {"add", "wait"}
    /\ pc # "idle"
    /\ pc' = "idle"
    /\ op' = "none"
    /\ result' = Raised(op, [kind |-> "KeyboardInterrupt"])
    /\ urls' = <<>>
    /\ added' = <<>>
    /\ snap_active' = {}
    /\ snap_waiting' = {}
    /\ phase' = "none"
    /\ progress_started' = FALSE
    /\ cmd' = [cmd EXCEPT !.pc = "interrupted", !.via = "interrupt"]
    /\ UNCHANGED <<orch, colls, attempt, env, obs>>

\* except KeyboardInterrupt: ... downloader.get_results()
AriaGetResults == cmd.pc = "interrupted" /\ result.op # "get_results" /\ GetResults

\* completed, failed = <what get_results returned>
AriaGotResults ==
    /\ cmd.pc = "interrupted"
    /\ result.op = "get_results"
    /\ cmd' = [cmd EXCEPT !.pc = "finally", !.locals = Some(result.value)]
    /\ CmdOnly

\* finally: downloader.stop()
AriaFinally == cmd.pc = "finally" /\ result.op # "stop" /\ Stop

\* After the finally clause: the pending exit leaves the command, otherwise
\* _render_summary(completed, failed).
AriaLeave ==
    /\ cmd.pc = "finally"
    /\ result.op = "stop"
    /\ cmd' = IF cmd.via = "error"
              THEN [cmd EXCEPT !.pc = "exited"]
              ELSE [cmd EXCEPT !.pc = "done", !.rendered = cmd.locals]
    /\ CmdOnly

NextAria ==
    \/ AriaStart
    \/ AriaStarted
    \/ AriaAdd
    \/ AriaAdded
    \/ AriaWait
    \/ AriaWaited
    \/ AriaRuntimeError
    \/ KeyboardInterrupt
    \/ AriaGetResults
    \/ AriaGotResults
    \/ AriaFinally
    \/ AriaLeave
    \/ SpawnNotFound
    \/ Spawn
    \/ EarlyExit
    \/ EarlyAlive
    \/ TcpReady
    \/ TcpExhausted
    \/ XmlrpcReady
    \/ XmlrpcExhausted
    \/ \E url \in URLS : AddUrlsSubmit(url)
    \/ \E url \in URLS : AddUrlsRpcFails(url)
    \/ (Len(urls) >= 1 /\ AddUrlsReturn)
    \/ TellActive
    \/ TellWaiting
    \/ TellStopped
    \/ PollRpcFails
    \/ \E pid \in Pids : ProcListen(pid)
    \/ \E pid \in Pids : ProcExit(pid)
    \/ \E g \in GIDS : Activate(g)
    \/ \E g \in GIDS : Finish(g)

SpecAria == InitAria /\ [][NextAria]_vars

\* ------------------------------------------- xmlrpc_ready, attempt by attempt
\* What proxy.aria2.getVersion(*params) may give: a decoded value (its type,
\* and its keys or items) or an exception of the client.
ValueReply(type, keys) == [kind |-> "value", type |-> type, keys |-> keys, exc |-> ""]
RaiseReply(exc) == [kind |-> "raise", type |-> "", keys |-> {}, exc |-> exc]

GETVERSION_REPLIES ==
    {ValueReply("dict", {"version", "enabledFeatures"}),
     ValueReply("dict", {"enabledFeatures"}),
     ValueReply("dict", {}),
     ValueReply("str", {}),
     ValueReply("list", {"version"})}
    \cup {RaiseReply(exc) : exc \in RPC_EXCEPTIONS}

\* xmlrpc_ready without the isinstance test.
xmlrpc_attempt_NoDictCheck(reply) ==
    IF reply.kind = "raise" THEN Some(reply.exc)
    ELSE IF "version" \notin reply.keys THEN Some("ConnectionError")
    ELSE None

\* One run of the body of xmlrpc_ready: the exception it raises, or None when
\* it returns True.
xmlrpc_attempt(reply) ==
    IF reply.kind = "raise" THEN Some(reply.exc)
    ELSE IF reply.type # "dict" \/ "version" \notin reply.keys THEN Some("ConnectionError")
    ELSE None

\* on=(ConnectionError, xmlrpc.client.ProtocolError, xmlrpc.client.Fault, OSError)
ProbeRetries(exc) ==
    ExcClasses(exc) \cap {"ConnectionError", "xmlrpc.client.ProtocolError",
                          "xmlrpc.client.Fault", "OSError"} # {}

\* A launch attempt that has reached xmlrpc_ready: the subprocess is alive and
\* accepts TCP connections.
InitProbe ==
    /\ secret \in SECRETS
    /\ max_concurrent \in CONCURRENCY
    /\ running = FALSE
    /\ proc = None
    /\ port = None
    /\ client = None
    /\ tasks = EmptyMap
    /\ completed = EmptyMap
    /\ failed = EmptyMap
    /\ processed_stopped = {}
    /\ pc = "rpc"
    /\ op = "start"
    /\ attempt = 1
    /\ urls = <<>>
    /\ added = <<>>
    /\ snap_active = {}
    /\ snap_waiting = {}
    /\ phase = "none"
    /\ progress_started = FALSE
    /\ result = NoResult
    /\ installed = TRUE
    /\ \E p \in PORTS : \E a \in BOOLEAN :
         procs = [pid \in {1} |->
                    [Spawned(p, secret) EXCEPT !.listening = TRUE, !.answers = a]]
    /\ cur = 1
    /\ remote = [g \in GIDS |-> "none"]
    /\ calls = <<>>
    /\ signals = <<>>
    /\ log_skipped = <<>>
    /\ poll_ret = None
    /\ session_gids = {}
    /\ submitted = 0
    /\ cmd = NoCommand

\* What an attempt of xmlrpc_ready leaves unchanged.
ProbeFrame ==
    UNCHANGED <<orch, colls, pc, op, attempt, addv, pollv, env,
                signals, log_skipped, poll_ret, session_gids, submitted, cmd>>

\* An attempt passes the check: xmlrpc_ready returns True.
ProbeSucceeds(reply) ==
    /\ pc = "rpc"
    /\ result = NoResult
    /\ Len(calls) < MaxProbes
    /\ xmlrpc_attempt(reply) = None
    /\ calls' = Append(calls, RpcCall("aria2.getVersion", <<>>, reply))
    /\ result' = Returned("xmlrpc_ready", TRUE)
    /\ ProbeFrame

\* An attempt raises an exception of the retry set, within the budget: wait,
\* then another attempt.
ProbeRetried(reply) ==
    /\ pc = "rpc"
    /\ result = NoResult
    /\ Len(calls) + 1 < MaxProbes
    /\ xmlrpc_attempt(reply) # None
    /\ ProbeRetries(xmlrpc_attempt(reply)[1])
    /\ calls' = Append(calls, RpcCall("aria2.getVersion", <<>>, reply))
    /\ result' = result
    /\ ProbeFrame

\* An attempt raises an exception of the retry set and the budget is spent:
\* the exception leaves xmlrpc_ready.
ProbeGivesUp(reply) ==
    /\ pc = "rpc"
    /\ result = NoResult
    /\ Len(calls) < MaxProbes
    /\ xmlrpc_attempt(reply) # None
    /\ ProbeRetries(xmlrpc_attempt(reply)[1])
    /\ calls' = Append(calls, RpcCall("aria2.getVersion", <<>>, reply))
    /\ result' = Raised("xmlrpc_ready", [type |-> xmlrpc_attempt(reply)[1], exhausted |-> TRUE])
    /\ ProbeFrame

\* An attempt raises an exception outside the retry set: it leaves
\* xmlrpc_ready at once.
ProbeEscapes(reply) ==
    /\ pc = "rpc"
    /\ result = NoResult
    /\ Len(calls) < MaxProbes
    /\ xmlrpc_attempt(reply) # None
    /\ ~ProbeRetries(xmlrpc_attempt(reply)[1])
    /\ calls' = Append(calls, RpcCall("aria2.getVersion", <<>>, reply))
    /\ result' = Raised("xmlrpc_ready", [type |-> xmlrpc_attempt(reply)[1], exhausted |-> FALSE])
    /\ ProbeFrame

NextProbe ==
    \/ \E reply \in GETVERSION_REPLIES : ProbeSucceeds(reply)
    \/ \E reply \in GETVERSION_REPLIES : ProbeRetried(reply)
    \/ \E reply \in GETVERSION_REPLIES : ProbeGivesUp(reply)
    \/ \E reply \in GETVERSION_REPLIES : ProbeEscapes(reply)

SpecProbe == InitProbe /\ [][NextProbe]_vars

\* ------------------------------------------------------ _kill, step by step
\* The process self._proc refers to.
Held == proc[1]

\* stop_aria2c(proc) / _kill(proc) is entered.
KillCall ==
    /\ pc = "idle"
    /\ proc # None
    /\ pc' = "terminate"
    /\ op' = "_kill"
    /\ signals' = <<>>
    /\ result' = NoResult
    /\ UNCHANGED <<orch, colls, attempt, addv, pollv, env, calls, log_skipped, poll_ret,
                   session_gids, submitted, cmd>>

\* proc.terminate() returns: SIGTERM was sent, unless the process had already
\* exited (Popen.send_signal polls first and then sends nothing).
KillTerminate ==
    /\ pc = "terminate"
    /\ signals' = IF Alive(Held) THEN Append(signals, [pid |-> Held, sig |-> "TERM"])
                  ELSE signals
    /\ pc' = "wait"
    /\ UNCHANGED <<orch, colls, op, attempt, addv, pollv, result, env, calls, log_skipped,
                   poll_ret, session_gids, submitted, cmd>>

\* proc.terminate() raises (the signal could not be sent): on to the handler.
KillTerminateRaises ==
    /\ pc = "terminate"
    /\ Alive(Held)
    /\ pc' = "kill"
    /\ UNCHANGED <<orch, colls, op, attempt, addv, pollv, result, env, obs, cmd>>

\* proc.wait(timeout=1.5) returns: the process has exited; _kill returns.
KillWaitReturns ==
    /\ pc = "wait"
    /\ ~Alive(Held)
    /\ pc' = "idle"
    /\ op' = "none"
    /\ result' = Returned("_kill", None)
    /\ UNCHANGED <<orch, colls, attempt, addv, pollv, env, obs, cmd>>

\* proc.wait(timeout=1.5) raises TimeoutExpired: the process is still there
\* after 1.5 s; on to the handler.
KillWaitTimeout ==
    /\ pc = "wait"
    /\ Alive(Held)
    /\ pc' = "kill"
    /\ UNCHANGED <<orch, colls, op, attempt, addv, pollv, result, env, obs, cmd>>

\* except Exception: proc.kill() returns: SIGKILL was sent, unless the process
\* has exited meanwhile; _kill returns.
KillKill ==
    /\ pc = "kill"
    /\ IF Alive(Held)
       THEN /\ signals' = Append(signals, [pid |-> Held, sig |-> "KILL"])
            /\ procs' = [procs EXCEPT ![Held].alive = FALSE, ![Held].listening = FALSE,
                                      ![Held].rc = Some(-9)]
            /\ remote' = IF Held = CurPid THEN NoTasks ELSE remote
       ELSE UNCHANGED <<signals, procs, remote>>
    /\ pc' = "idle"
    /\ op' = "none"
    /\ result' = Returned("_kill", None)
    /\ UNCHANGED <<orch, colls, attempt, addv, pollv, installed, cur, calls, log_skipped,
                   poll_ret, session_gids, submitted, cmd>>

\* KillKillRaises with the exception of proc.kill() leaving _kill.
KillKillRaises_Propagates ==
    /\ pc = "kill"
    /\ Alive(Held)
    /\ pc' = "idle"
    /\ op' = "none"
    /\ result' = Raised("_kill", [kind |-> "OSError"])
    /\ UNCHANGED <<orch, colls, attempt, addv, pollv, env, obs, cmd>>

\* except Exception: proc.kill() raises: except Exception: pass; _kill returns.
KillKillRaises ==
    /\ pc = "kill"
    /\ Alive(Held)
    /\ pc' = "idle"
    /\ op' = "none"
    /\ result' = Returned("_kill", None)
    /\ UNCHANGED <<orch, colls, attempt, addv, pollv, env, obs, cmd>>

\* The subprocess acts on a SIGTERM it was sent: it exits.
ProcTerminated(pid) ==
    /\ Alive(pid)
    /\ \E i \in DOMAIN signals : signals[i] = [pid |-> pid, sig |-> "TERM"]
    /\ procs' = [procs EXCEPT ![pid].alive = FALSE, ![pid].listening = FALSE,
                              ![pid].rc = Some(-15)]
    /\ remote' = IF pid = CurPid THEN NoTasks ELSE remote
    /\ UNCHANGED <<orch, colls, ctl, installed, cur, obs, cmd>>

NextKill ==
    \/ KillCall
    \/ KillTerminate
    \/ KillTerminateRaises
    \/ KillWaitReturns
    \/ KillWaitTimeout
    \/ KillKill
    \/ KillKillRaises
    \/ \E pid \in Pids : ProcTerminated(pid)
    \/ \E pid \in Pids : ProcExit(pid)
    \/ \E pid \in Pids : ProcListen(pid)
    \/ StartCall
    \/ Spawn
    \/ EarlyExit
    \/ EarlyAlive
    \/ TcpReady
    \/ TcpExhausted
    \/ XmlrpcReady
    \/ XmlrpcExhausted
    \/ Stop

\* A fresh orchestrator on a machine that has aria2c.
InitKill == Init /\ installed = TRUE

\* Sessions are started and stopped as in Spec; in between, stop_aria2c is
\* called, any number of times, on the process the orchestrator holds and is
\* followed call by call.
SpecKill == InitKill /\ [][NextKill]_vars

\* ------------------------------------------------------------- one session
\* The operations of one session, between a start() that succeeded and the
\* stop() that ends it, with the subprocess working on its own.
NextSession ==
    \/ AddUrlsCall
    \/ \E url \in URLS : AddUrlsSkip(url)
    \/ \E url \in URLS : AddUrlsSubmit(url)
    \/ \E url \in URLS : AddUrlsRpcFails(url)
    \/ AddUrlsReturn
    \/ MonitorCall
    \/ WaitCall
    \/ TellActive
    \/ TellWaiting
    \/ TellStopped
    \/ PollRpcFails
    \/ GetResults
    \/ \E pid \in Pids : ProcExit(pid)
    \/ \E g \in GIDS : Activate(g)
    \/ \E g \in GIDS : Finish(g)

SpecSession == InitRpc /\ [][NextSession]_vars

\* ------------------------------------------------------------- random_port
\* Numbers /proc/sys/net/ipv4/ip_local_port_range may hold.
PORT_NUMBERS == {32768, 32769, 32770}

\* What open(...).read().split() gives: None when the file cannot be opened,
\* else the tokens of its text, each a decimal number or (None) not one.
PORT_FILES ==
    {None, Some(<<>>), Some(<<Some(32768)>>), Some(<<None, Some(60999)>>),
     Some(<<Some(32768), Some(60999), Some(1)>>)}
    \cup {Some(<<Some(lo), Some(hi)>>) : lo \in PORT_NUMBERS, hi \in PORT_NUMBERS}

\* os.name, with the file system that goes with it.
PLATFORMS ==
    {[os_name |-> "posix", file |-> f] : f \in PORT_FILES}
    \cup {[os_name |-> "nt", file |-> None]}

\* Whether "lo, hi = map(int, f.read().split())" goes through.
TwoNumbers(file) ==
    /\ file # None
    /\ Len(file[1]) = 2
    /\ file[1][1] # None
    /\ file[1][2] # None

\* system_ephemeral_range(): range(lo, hi + 1), or the fallback when the OS is
\* not POSIX or anything raised.
system_ephemeral_range(platform) ==
    IF platform.os_name = "posix" /\ TwoNumbers(platform.file)
    THEN [start |-> platform.file[1][1][1], stop |-> platform.file[1][2][1] + 1]
    ELSE [start |-> FallbackStart, stop |-> FallbackStop]

\* rng = system_ephemeral_range()
SystemEphemeralRange(platform) ==
    /\ result.op # "system_ephemeral_range"
    /\ result' = Returned("system_ephemeral_range",
                          [platform |-> platform, rng |-> system_ephemeral_range(platform)])
    /\ UNCHANGED <<orch, colls, pc, op, attempt, addv, pollv, env, obs, cmd>>

\* return random.randint(rng.start, rng.stop - 1): any integer of the closed
\* interval.
RandomPortReturns(p) ==
    /\ result.op = "system_ephemeral_range"
    /\ p \in result.value.rng.start .. (result.value.rng.stop - 1)
    /\ result' = Returned("random_port", [platform |-> result.value.platform, port |-> p])
    /\ UNCHANGED <<orch, colls, pc, op, attempt, addv, pollv, env, obs, cmd>>

\* random.randint(a, b) with a > b raises ValueError (empty range).
RandomPortRaises ==
    /\ result.op = "system_ephemeral_range"
    /\ result.value.rng.start > result.value.rng.stop - 1
    /\ result' = Raised("random_port", [kind |-> "ValueError",
                                        platform |-> result.value.platform])
    /\ UNCHANGED <<orch, colls, pc, op, attempt, addv, pollv, env, obs, cmd>>

\* The integers followed as what random.randint may draw: the ends of the
\* ranges above and their neighbours.
PORT_DRAWS ==
    {n + d : n \in PORT_NUMBERS \cup {FallbackStart, FallbackStop}, d \in {-1, 0, 1}}

NextPort ==
    \/ \E platform \in PLATFORMS : SystemEphemeralRange(platform)
    \/ \E p \in PORT_DRAWS : RandomPortReturns(p)
    \/ RandomPortRaises

InitPort == Init

SpecPort == InitPort /\ [][NextPort]_vars

\* ------------------------------------------------ the pipes of the subprocess
\* The subprocess cannot go on: its next write to stdout waits for room in the
\* pipe, that is for the orchestrator to read.
Stalled(pid) == Alive(pid) /\ procs[pid].piped >= PipeCapacity

\* The subprocess writes a chunk of console output (progress readout, download
\* results) to its stdout, which is the pipe Popen gave it.
ProcWrite(pid) ==
    /\ Alive(pid)
    /\ procs[pid].piped < PipeCapacity
    /\ procs' = [procs EXCEPT ![pid].piped = @ + 1]
    /\ UNCHANGED <<orch, colls, ctl, installed, cur, remote, obs, cmd>>

\* One session as in SpecSession, with the subprocess writing output as it
\* goes; a stalled subprocess moves no task.  No operation of the
\* orchestrator reads proc.stdout.
NextPipe ==
    \/ AddUrlsCall
    \/ \E url \in URLS : AddUrlsSkip(url)
    \/ \E url \in URLS : AddUrlsSubmit(url)
    \/ \E url \in URLS : AddUrlsRpcFails(url)
    \/ AddUrlsReturn
    \/ WaitCall
    \/ TellActive
    \/ TellWaiting
    \/ TellStopped
    \/ PollRpcFails
    \/ \E pid \in Pids : ProcWrite(pid)
    \/ \E pid \in Pids : ProcExit(pid)
    \/ \E g \in GIDS : ~Stalled(CurPid) /\ Activate(g)
    \/ \E g \in GIDS : ~Stalled(CurPid) /\ Finish(g)

SpecPipe == InitRpc /\ [][NextPipe]_vars

\* ------------------------------------------------------- launches only
\* start() and stop() of one orchestrator, with what the subprocesses do while
\* they come up.
NextLaunch ==
    \/ StartWhileRunning
    \/ StartCall
    \/ SpawnNotFound
    \/ Spawn
    \/ EarlyExit
    \/ EarlyAlive
    \/ TcpReady
    \/ TcpExhausted
    \/ XmlrpcReady
    \/ XmlrpcExhausted
    \/ Stop
    \/ \E pid \in Pids : ProcListen(pid)
    \/ \E pid \in Pids : ProcExit(pid)

SpecLaunch == Init /\ [][NextLaunch]_vars

\* --------------------------------------------- interrupts during start()
\* Ctrl-C while downloader.start() is in time.sleep(0.1), tcp_ready or
\* xmlrpc_ready: KeyboardInterrupt is not an Exception and not a RuntimeError,
\* so neither the handlers around the probes (which call _kill) nor the retry
\* decorator see it; it leaves start_aria2c_ephemeral_rpc, whose local proc is
\* the only reference to the process, and start(), before self._proc and
\* self._running are assigned, and arrives in the command's handler.
StartInterrupted ==
    /\ cmd.pc = "start"
    /\ pc \in {"early", "tcp", "rpc"}
    /\ pc' = "idle"
    /\ op' = "none"
    /\ attempt' = 0
    /\ result' = Raised("start", [kind |-> "KeyboardInterrupt"])
    /\ procs' = Released(procs, CurPid)
    /\ cmd' = [cmd EXCEPT !.pc = "interrupted", !.via = "interrupt"]
    /\ UNCHANGED <<orch, colls, addv, pollv, installed, cur, remote, obs>>

NextInterrupt ==
    \/ NextAria
    \/ StartInterrupted

\* The aria command, interruptible during start() as well.
SpecInterrupt == InitAria /\ [][NextInterrupt]_vars

\* ------------------------------------------- a call the subprocess refuses
\* AddUrlsFault with add_urls returning the GIDs collected so far.
AddUrlsFault_ReturnsPartial(url) ==
    /\ pc = "add"
    /\ Len(urls) < MaxBatch
    /\ ValidUrl(url)
    /\ RpcUp
    /\ result' = Returned("add_urls", added)
    /\ session_gids' = session_gids \cup {added[i] : i \in DOMAIN added}
    /\ calls' = Called("aria2.addUri", <<url, AddOptions>>, 0)
    /\ log_skipped' = <<>>
    /\ urls' = <<>>
    /\ added' = <<>>
    /\ pc' = "idle"
    /\ op' = "none"
    /\ UNCHANGED <<orch, colls, attempt, pollv, env, signals, poll_ret, submitted>>
    /\ UNCHANGED cmd

\* One iteration of the loop of add_urls, the iterable yields a valid URL: the
\* subprocess is serving and answers aria2.addUri with a fault (reply 0: no
\* GID); _rpc raises and so does add_urls, its list added is lost.
AddUrlsFault(url) ==
    /\ pc = "add"
    /\ Len(urls) < MaxBatch
    /\ ValidUrl(url)
    /\ RpcUp
    /\ result' = Raised("add_urls", RpcError("aria2.addUri"))
    /\ calls' = Called("aria2.addUri", <<url, AddOptions>>, 0)
    /\ log_skipped' = <<>>
    /\ urls' = <<>>
    /\ added' = <<>>
    /\ pc' = "idle"
    /\ op' = "none"
    /\ UNCHANGED <<orch, colls, attempt, pollv, env, signals, poll_ret, session_gids, submitted>>
    /\ UNCHANGED cmd

NextFault ==
    \/ AddUrlsCall
    \/ \E url \in URLS : AddUrlsSubmit(url)
    \/ \E url \in URLS : AddUrlsFault(url)
    \/ \E url \in URLS : AddUrlsRpcFails(url)
    \/ AddUrlsReturn
    \/ MonitorCall
    \/ TellActive
    \/ TellWaiting
    \/ TellStopped
    \/ PollRpcFails
    \/ \E pid \in Pids : ProcExit(pid)
    \/ \E g \in GIDS : Activate(g)
    \/ \E g \in GIDS : Finish(g)

\* One session in which the subprocess may also refuse a submission.
SpecFault == InitRpc /\ [][NextFault]_vars

\* ------------------------------------------- a channel that breaks mid-call
\* One of the three calls of a poll reaches the subprocess but the exchange
\* breaks (the connection is reset, the answer is cut short or is not one):
\* the client raises exc, _rpc raises what rpc_raises gives for it, and
\* monitor_progress and wait_for_completion (finally: progress.stop()) pass
\* it on.
PollRpcBreaks(exc) ==
    /\ pc \in {"tellActive", "tellWaiting", "tellStopped"}
    /\ client # None
    /\ result' = Raised(op, rpc_raises(PollMethod, exc))
    /\ pc' = "idle"
    /\ op' = "none"
    /\ phase' = "none"
    /\ progress_started' = FALSE
    /\ snap_active' = {}
    /\ snap_waiting' = {}
    /\ poll_ret' = None
    /\ UNCHANGED <<orch, colls, attempt, addv, env, calls, signals, log_skipped, session_gids, submitted>>
    /\ UNCHANGED cmd

NextBreak ==
    \/ AddUrlsCall
    \/ \E url \in URLS : AddUrlsSubmit(url)
    \/ AddUrlsReturn
    \/ WaitCall
    \/ TellActive
    \/ TellWaiting
    \/ TellStopped
    \/ PollRpcFails
    \/ \E exc \in RPC_EXCEPTIONS : PollRpcBreaks(exc)
    \/ GetResults
    \/ \E pid \in Pids : ProcExit(pid)
    \/ \E g \in GIDS : Activate(g)
    \/ \E g \in GIDS : Finish(g)

\* One session whose control channel may break in the middle of a call.
SpecBreak == InitRpc /\ [][NextBreak]_vars

\* ------------------------------------------------ a session that goes well
\* One session in which the subprocess stays up and every call is answered:
\* batches are submitted, wait_for_completion polls, the subprocess starts
\* and finishes transfers.
NextWait ==
    \/ AddUrlsCall
    \/ \E url \in URLS : AddUrlsSkip(url)
    \/ \E url \in URLS : AddUrlsSubmit(url)
    \/ AddUrlsReturn
    \/ WaitCall
    \/ TellActive
    \/ TellWaiting
    \/ TellStopped
    \/ \E g \in GIDS : Activate(g)
    \/ \E g \in GIDS : Finish(g)

\* The next call of the poll wait_for_completion is in.
PollStep == TellActive \/ TellWaiting \/ TellStopped

\* When PollStep can be taken: a poll is at one of its calls and the call is
\* answered (ENABLED <<PollStep>>_vars, from the guards of the three steps).
PollEnabled == pc \in {"tellActive", "tellWaiting", "tellStopped"} /\ RpcUp

\* The subprocess starts a queued transfer or ends a started one.
SubprocessStep == \E g \in GIDS : Activate(g) \/ Finish(g)

\* The thread inside wait_for_completion keeps running (each call of a poll is
\* made and answered, time.sleep(0.5) returns): weak fairness of PollStep,
\* written out with PollEnabled for ENABLED <<PollStep>>_vars. The subprocess
\* keeps working while it has a transfer to start or to end: WF of
\* SubprocessStep.
SpecWait ==
    /\ InitRpc
    /\ [][NextWait]_vars
    /\ ([]<>(~PollEnabled) \/ []<><<PollStep>>_vars)
    /\ WF_vars(SubprocessStep)

\* ====================================================================== claims
\* The keys of a collection.
Keys(d) == DOMAIN d

\* No spawned process is alive.
NoneAlive(ps) == \A pid \in DOMAIN ps : ~ps[pid].alive

\* The step is the last call of a poll, and monitor_progress returns.
PollReturns == pc = "tellStopped" /\ poll_ret' # None

\* Whether a queue of the subprocess (waiting or active) holds a task.
QueuesEmpty(r) == \A g \in GIDS : r[g] \notin {"waiting", "active"}

\* C1: after every step the keys of completed and failed are disjoint and
\* together are exactly the GIDs processed as stopped; when a poll returns,
\* every GID of its tellStopped reply is in exactly one of the two; and a
\* record, once made, is never changed, dropped or moved by any later step
\* (so a poll that reports the GID as stopped again leaves it where it is).
C1_ExactlyOnce ==
    [][ /\ Keys(completed') \cap Keys(failed') = {}
        /\ Keys(completed') \cup Keys(failed') = processed_stopped'
        /\ PollReturns =>
             \A e \in TellStoppedReply :
                (e.gid \in Keys(completed')) # (e.gid \in Keys(failed'))
        /\ \A g \in Keys(completed) : g \in Keys(completed') /\ completed'[g] = completed[g]
        /\ \A g \in Keys(failed) : g \in Keys(failed') /\ failed'[g] = failed[g]
      ]_vars

\* C1 witness: a poll has returned whose tellStopped reply reports as
\* "complete" a GID already recorded as failed (the GID was used again by the
\* subprocess of a later session).
C1_Witness ==
    /\ Len(calls) = 3
    /\ calls[3].method = "aria2.tellStopped"
    /\ \E e \in calls[3].reply : e.status = "complete" /\ e.gid \in Keys(failed)

\* C2 (as claimed): when wait_for_completion has returned normally, every GID
\* add_urls returned in this session is in the returned completed or failed
\* records.
C2_AllSettled ==
    (result.op = "wait_for_completion" /\ result.status = "ok") =>
        session_gids \subseteq
            {r.gid : r \in result.value.completed \cup result.value.failed}

\* C3 (as claimed): whenever monitor_progress returns, it returns False if and
\* only if the waiting queue and the active queue of the subprocess are both
\* empty at that instant.
C3_FalseIffIdle ==
    [][ PollReturns => ((poll_ret'[1] = FALSE) <=> QueuesEmpty(remote')) ]_vars

\* A valid URL as the contract words it: scheme http or https, non-empty host.
HttpWithHost(url) ==
    /\ urlparse(url).scheme \in {"http", "https"}
    /\ urlparse(url).netloc # ""

NotHttpWithHost(url) == ~HttpWithHost(url)

\* add_urls so far: one aria2.addUri call per valid URL taken, in input order,
\* the GIDs collected are the replies in that order, and the skips logged are
\* the invalid URLs taken.
AddSoFar ==
    LET valid == SelectSeq(urls, HttpWithHost)
    IN /\ Len(calls) = Len(valid)
       /\ \A i \in DOMAIN calls :
            calls[i].method = "aria2.addUri" /\ calls[i].args[1] = valid[i]
       /\ Len(added) = Len(valid)
       /\ \A i \in DOMAIN added : added[i] = calls[i].reply
       /\ log_skipped = SelectSeq(urls, NotHttpWithHost)

\* C4: while add_urls runs on a running orchestrator and no call has failed,
\* exactly the valid URLs taken so far have been sent, one aria2.addUri each in
\* input order, and the invalid ones logged as skipped; taking an invalid URL
\* makes no call, raises nothing and changes neither the remote queue nor the
\* failed collection; and add_urls returns the GIDs of the replies, in order.
C4_AddUrls ==
    [][ /\ pc' = "add" => AddSoFar'
        /\ (pc = "add" /\ Len(urls') > Len(urls) /\ ~HttpWithHost(urls'[Len(urls')])) =>
              /\ pc' = "add"
              /\ result' = result
              /\ calls' = calls
              /\ remote' = remote
              /\ failed' = failed
        /\ (pc = "add" /\ pc' = "idle" /\ result'.status = "ok") =>
              /\ result'.value = added
              /\ Len(result'.value) = Len(SelectSeq(urls, HttpWithHost))
              /\ failed' = failed
      ]_vars

\* C4 witness: the loop has taken a full batch holding a valid and an invalid
\* URL, has one GID and one skip, and is about to return.
C4_Witness ==
    /\ pc = "add"
    /\ Len(urls) = MaxBatch
    /\ Len(added) >= 1
    /\ Len(log_skipped) >= 1

\* C5: when start() has failed on an exhausted TCP or RPC readiness probe, and
\* whenever a launch attempt has failed and the next is about to spawn, no
\* spawned process is alive.
C5_NoProcessLeftRunning ==
    /\ (result.op = "start" /\ result.status = "raise"
          /\ result.err.kind \in {"tcp_not_ready", "rpc_not_ready"}) => NoneAlive(procs)
    /\ (pc = "spawn" /\ attempt > 1) => NoneAlive(procs)

\* C5 witness: start() has failed on the RPC probe after the process ignored
\* terminate() and was killed.
C5_Witness ==
    /\ result.op = "start"
    /\ result.status = "raise"
    /\ result.err.kind = "rpc_not_ready"
    /\ Len(signals) = 2
    /\ signals[2].sig = "KILL"

\* The step is the post-spawn check finding the process exited.
EarlyExitSeen == pc = "early" /\ ~procs[cur].alive /\ pc' # "early"

\* C6 (as claimed): when the post-spawn check finds the process exited,
\* start() raises the early-exit error.
C6_EarlyExitRaises ==
    [][ EarlyExitSeen =>
          /\ pc' = "idle"
          /\ result'.status = "raise"
          /\ result'.err.kind = "exited_early" ]_vars

\* C6 (amended): when the post-spawn check finds the process exited, no
\* process is left alive; on the last attempt (the fifth) start() raises the
\* early-exit error with the return code, the port and the stripped stderr of
\* that process and the orchestrator stays not running; on an earlier attempt
\* nothing is raised and the next attempt is made.
C6_EarlyExitAttempt ==
    [][ EarlyExitSeen =>
          /\ NoneAlive(procs')
          /\ ~running'
          /\ IF attempt = MaxAttempts
             THEN /\ pc' = "idle"
                  /\ result'.op = "start"
                  /\ result'.status = "raise"
                  /\ result'.err.kind = "exited_early"
                  /\ result'.err.rc = procs[cur].rc[1]
                  /\ result'.err.port = procs[cur].port
                  /\ result'.err.err = Strip(procs[cur].stderr)
             ELSE /\ pc' = "spawn"
                  /\ attempt' = attempt + 1
                  /\ result' = result ]_vars

\* C6 witness: start() has raised the early-exit error carrying captured stderr.
C6_Witness ==
    /\ result.op = "start"
    /\ result.status = "raise"
    /\ result.err.kind = "exited_early"
    /\ result.err.err = "bind: EADDRINUSE"

\* The step is a call of stop().
StopStep ==
    /\ pc = "idle"
    /\ result'.op = "stop"
    /\ running \/ (procs' = procs /\ remote' = remote)

\* C7: stop() never raises and leaves the orchestrator not running with no
\* process and no client; called when not running it sends no signal and
\* changes nothing of the orchestrator, its collections or the processes;
\* called while running it leaves no process alive, having sent the process it
\* held (if still alive) exactly one terminate and at most one kill after it.
C7_StopIdempotent ==
    [][ StopStep =>
          /\ result'.status = "ok"
          /\ pc' = "idle"
          /\ ~running' /\ proc' = None /\ client' = None
          /\ ~running =>
                /\ signals' = <<>>
                /\ UNCHANGED <<orch, colls, env>>
          /\ running =>
                /\ NoneAlive(procs')
                /\ UNCHANGED colls
                /\ IF proc # None /\ Alive(proc[1])
                   THEN /\ Len(signals') \in {1, 2}
                        /\ signals'[1] = [pid |-> proc[1], sig |-> "TERM"]
                        /\ Len(signals') = 2 => signals'[2] = [pid |-> proc[1], sig |-> "KILL"]
                   ELSE signals' = <<>> ]_vars

\* C7 witness: stop() has been called on a running orchestrator whose process
\* needed the kill, and the orchestrator is not running.
C7_Witness ==
    /\ result.op = "stop"
    /\ ~running
    /\ Len(signals) = 2

\* C8: start() on a running orchestrator raises the state error and changes
\* neither the processes nor the process, port and client it holds, and no
\* launch is ever in progress while the orchestrator is running; on an
\* orchestrator that is not running (after stop() too) start() does not raise
\* the state error.
C8_StartTwice ==
    [][ /\ (pc = "idle" /\ running /\ result'.op = "start" /\ result' # result) =>
              /\ result'.status = "raise"
              /\ result'.err.kind = "state"
              /\ pc' = "idle"
              /\ UNCHANGED <<orch, procs, cur>>
        /\ (pc = "idle" /\ running) => pc' \notin {"spawn", "early", "tcp", "rpc"}
        /\ (pc = "idle" /\ ~running /\ result'.op = "start" /\ result'.status = "raise") =>
              result'.err.kind # "state"
      ]_vars

\* C8 witness: start() has raised the state error on a running orchestrator
\* that was started again after an earlier session left records behind.
C8_Witness ==
    /\ running
    /\ result.op = "start"
    /\ result.status = "raise"
    /\ result.err.kind = "state"
    /\ Keys(completed) # {}
    /\ Keys(tasks) = {}

\* C9: on an orchestrator that is not running, add_urls, monitor_progress and
\* wait_for_completion raise the state error at once, with no remote call made
\* and the task map, completed, failed and processed unchanged; the body of
\* none of them is ever entered or run while the orchestrator is not running.
C9_NotRunningRaises ==
    [][ /\ (pc = "idle" /\ ~running /\ result' # result
              /\ result'.op \in {"add_urls", "monitor_progress", "wait_for_completion"}) =>
              /\ result'.status = "raise"
              /\ result'.err.kind = "state"
              /\ pc' = "idle"
              /\ calls' = <<>>
              /\ UNCHANGED <<colls, remote>>
        /\ pc' \in {"add", "tellActive", "tellWaiting", "tellStopped"} => running'
      ]_vars

\* C9 witness: wait_for_completion has raised the state error on an orchestrator
\* stopped after a session that left a record behind.
C9_Witness ==
    /\ ~running
    /\ result.op = "wait_for_completion"
    /\ result.status = "raise"
    /\ result.err.kind = "state"
    /\ Keys(failed) # {}

AllSet == running /\ proc # None /\ client # None
AllAbsent == ~running /\ proc = None /\ client = None

\* C10: between public operations the running flag, the process reference
\* and the client reference are all set or all absent; after a start() that
\* failed in a launch, and after stop(), they are all absent; and the flag is
\* only ever set by the step in which the RPC handshake succeeds.
C10_AllOrNothing ==
    [][ /\ pc' = "idle" => (AllSet' \/ AllAbsent')
        /\ (pc' = "idle" /\ result'.op = "start" /\ result'.status = "raise"
              /\ result'.err.kind # "state") => AllAbsent'
        /\ (pc' = "idle" /\ result'.op = "stop") => AllAbsent'
        /\ (~running /\ running') => (pc = "rpc" /\ Answering(CurPort))
      ]_vars

\* C10 witness: a session was started, and stopped with a signal.
C10_Witness ==
    /\ pc = "idle"
    /\ result.op = "stop"
    /\ AllAbsent
    /\ Len(signals) = 1

\* The record the step has filed for the reported struct r.
FiledRecord(r) ==
    IF r.gid \in Keys(completed') THEN completed'[r.gid] ELSE failed'[r.gid]

\* C11: for every struct of a tellStopped reply whose GID had not been
\* processed before, the step files one record: in completed if and only if
\* the reported status is exactly "complete", otherwise in failed and not in
\* completed; the record carries the GID, the first reported file path (empty
\* if none), the status, the lengths as reported and the error code and
\* message as reported (empty when none was reported).
C11_RecordRouted ==
    [][ \A r \in (IF calls' = <<>> THEN {} ELSE calls'[1].reply) :
          r.gid \notin processed_stopped =>
            /\ r.gid \in processed_stopped'
            /\ (r.gid \in Keys(completed')) <=> (r.status = Some("complete"))
            /\ (r.gid \in Keys(failed')) <=> (r.status # Some("complete"))
            /\ FiledRecord(r).gid = r.gid
            /\ r.status # None => FiledRecord(r).status = r.status[1]
            /\ r.files = <<>> => FiledRecord(r).path = ""
            /\ (r.files # <<>> /\ r.files[1] # None) => FiledRecord(r).path = r.files[1][1]
            /\ r.totalLength # None => FiledRecord(r).totalLength = r.totalLength[1]
            /\ r.completedLength # None =>
                  FiledRecord(r).completedLength = r.completedLength[1]
            /\ FiledRecord(r).errorCode =
                  (IF r.errorCode = None THEN "" ELSE r.errorCode[1])
            /\ FiledRecord(r).errorMessage =
                  (IF r.errorMessage = None THEN "" ELSE r.errorMessage[1])
      ]_vars

\* C11 witness: one reply has been filed whose two structs went one to
\* completed and one, of status "removed" without error fields, to failed.
C11_Witness ==
    /\ calls # <<>>
    /\ calls[1].method = "aria2.tellStopped"
    /\ Cardinality(calls[1].reply) = 2
    /\ \E r \in calls[1].reply :
         /\ r.status = Some("removed")
         /\ r.gid \in Keys(failed)
         /\ failed[r.gid].status = "removed"
         /\ failed[r.gid].errorCode = ""
    /\ \E r \in calls[1].reply :
         r.status = Some("complete") /\ r.gid \in Keys(completed)

\* The step is the return of a poll made by wait_for_completion.
WaitPollReturns == PollReturns /\ op = "wait_for_completion"

\* C12: wait_for_completion starts with a poll of its loop; a poll of the loop
\* that reports still running is followed by another poll of the loop; the
\* first poll of the loop that reports not running is followed by exactly one
\* further poll, the final one; and when the final poll returns,
\* wait_for_completion returns the accumulated collections whatever that poll
\* reported.  (So a run with k polls reporting still running makes k + 2.)
C12_LoopThenFinalPoll ==
    [][ /\ (pc = "idle" /\ op' = "wait_for_completion") =>
              (pc' = "tellActive" /\ phase' = "loop")
        /\ (WaitPollReturns /\ phase = "loop" /\ poll_ret'[1]) =>
              (pc' = "tellActive" /\ phase' = "loop" /\ op' = op /\ result' = result)
        /\ (WaitPollReturns /\ phase = "loop" /\ ~poll_ret'[1]) =>
              (pc' = "tellActive" /\ phase' = "final" /\ op' = op /\ result' = result)
        /\ (WaitPollReturns /\ phase = "final") =>
              /\ pc' = "idle"
              /\ result' = Returned("wait_for_completion", Results(completed', failed'))
        /\ (op = "wait_for_completion" /\ ~PollReturns) =>
              (phase' = phase \/ result'.status = "raise")
        /\ (result' # result /\ result'.op = "wait_for_completion" /\ result'.status = "ok") =>
              (WaitPollReturns /\ phase = "final")
      ]_vars

\* C12 witness: wait_for_completion has returned records after a final poll
\* that still reported a running task.
C12_Witness ==
    /\ result.op = "wait_for_completion"
    /\ result.status = "ok"
    /\ poll_ret = Some(TRUE)
    /\ result.value.completed # {}

\* The records of a collection.
Records(d) == {d[g] : g \in DOMAIN d}

\* C13: whenever get_results hands out a result (before start, while running,
\* after a failed wait, after stop) it is exactly the completed and the failed
\* records accumulated so far, no remote call is made, no signal is sent, and
\* neither the orchestrator, its collections, the processes nor the remote
\* queue change; and stop() leaves the completed and failed records as they
\* were, so get_results returns the same before and after it.
C13_GetResultsPure ==
    [][ /\ (pc = "idle" /\ result' # result /\ result'.op = "get_results") =>
              /\ result'.status = "ok"
              /\ result'.value.completed = Records(completed)
              /\ result'.value.failed = Records(failed)
              /\ calls' = <<>>
              /\ signals' = <<>>
              /\ pc' = "idle"
              /\ UNCHANGED <<orch, colls, env>>
        /\ StopStep => (completed' = completed /\ failed' = failed)
      ]_vars

\* C13 witness: get_results has handed out a failed record on an orchestrator
\* that was stopped.
C13_Witness ==
    /\ result.op = "get_results"
    /\ ~running
    /\ proc = None
    /\ result.value.failed # {}
    /\ result.value.failed = Records(failed)

\* A shared secret is configured: a non-empty string was given.
SecretConfigured == secret # None /\ secret # Some("")

C15_UniformFailure ==
    (result.op = "_rpc" /\ result.status = "raise") =>
        /\ result.err.type = "RuntimeError"
        /\ result.err.kind = "rpc_communication"
        /\ result.err.cause = Some(calls[Len(calls)].reply)

\* The positions of the three fetches of a poll.
PollPcs == {"tellActive", "tellWaiting", "tellStopped"}

\* C16: a remote call that cannot go through is made once: the step of the
\* operation at that call raises the communication failure out of the
\* enclosing add_urls, monitor_progress or wait_for_completion and ends it,
\* with no further call made, nothing further submitted and the remote queue
\* untouched; a poll changes the task map and the completed, failed and
\* processed collections only in the step in which its third fetch is
\* answered, so a poll that fails on any of its fetches leaves them as they
\* were before the poll.
C16_FailureAbortsOnce ==
    [][ /\ (pc \in PollPcs /\ ~RpcUp /\ ctl' # ctl) =>
              /\ pc' = "idle"
              /\ result'.status = "raise"
              /\ result'.op = op
              /\ result'.err.kind \in {"rpc_communication", "rpc_not_initialized"}
              /\ calls' = calls
              /\ remote' = remote
              /\ UNCHANGED colls
        /\ (pc = "add" /\ result' # result /\ result'.status = "raise") =>
              /\ pc' = "idle"
              /\ ~RpcUp
              /\ result'.op = "add_urls"
              /\ result'.err.kind \in {"rpc_communication", "rpc_not_initialized"}
              /\ submitted' = submitted
              /\ remote' = remote
              /\ UNCHANGED colls
        /\ (pc \in {"tellActive", "tellWaiting"}) => UNCHANGED colls
        /\ (pc = "tellStopped" /\ poll_ret' = None) => UNCHANGED colls
      ]_vars

\* C16 witness: a poll has failed on its third fetch after its second had
\* reported a waiting task that has no tracker.
C16_Witness ==
    /\ result.status = "raise"
    /\ result.op \in {"monitor_progress", "wait_for_completion"}
    /\ result.err.kind = "rpc_communication"
    /\ result.err.method = "aria2.tellStopped"
    /\ Len(calls) = 2
    /\ calls[2].reply # {}
    /\ \E e \in calls[2].reply : e.gid \notin Keys(tasks)

\* C18: once start() has succeeded, when the aria command is left (after the
\* summary or by its exit) stop() was the last call made on the downloader,
\* the downloader is not running and no subprocess is alive; on the interrupt
\* path the results were read by get_results() before stop() was called, and
\* they are what is rendered.
C18_AlwaysStopped ==
    /\ (cmd.started /\ cmd.pc \in {"done", "exited"}) =>
          /\ result.op = "stop"
          /\ ~running
          /\ NoneAlive(procs)
    /\ (cmd.started /\ cmd.pc \in {"finally", "interrupted"}) =>
          (result.op = "stop" => (~running /\ NoneAlive(procs)))
    /\ (cmd.via = "interrupt" /\ result.op = "stop") =>
          (cmd.locals # None /\ cmd.locals[1] = Results(completed, failed))
    /\ (cmd.via = "interrupt" /\ cmd.pc = "done") =>
          (cmd.rendered = cmd.locals /\ cmd.exit = None)

\* C18 witness: the command was interrupted while waiting, read a partial
\* result, stopped a subprocess that was alive and rendered that result.
C18_Witness ==
    /\ cmd.started
    /\ cmd.pc = "done"
    /\ cmd.via = "interrupt"
    /\ cmd.rendered # None
    /\ cmd.rendered[1].completed # {}
    /\ signals # <<>>
    /\ session_gids \ Keys(completed) # {}

\* The positions of a launch attempt, in the order of the code.
StartPcs == <<"spawn", "early", "tcp", "rpc">>
StartRank(p) == CHOOSE i \in 1..4 : StartPcs[i] = p

\* C19: a launch attempt only moves from one position to the next: the
\* process is spawned on the chosen port, then the early-exit check finds it
\* alive, then a TCP connect to that port is accepted, then the getVersion
\* handshake (with the token when a secret is set) is answered, and in that
\* last step the process, port and client are recorded and the orchestrator
\* marked running; the handshake is never made before the TCP connect has
\* succeeded, and running is never set before the handshake has succeeded.
C19_StartOrder ==
    [][ /\ (pc' \in {"early", "tcp", "rpc"} /\ pc' # pc) =>
              /\ pc \in {"spawn", "early", "tcp"}
              /\ StartRank(pc') = StartRank(pc) + 1
        /\ (pc = "spawn" /\ pc' = "early") =>
              (cur' \in DOMAIN procs' /\ procs'[cur'].alive /\ procs'[cur'].port \in PORTS
               /\ ~running')
        /\ (pc = "early" /\ pc' = "tcp") => (Alive(cur) /\ ~running')
        /\ (pc = "tcp" /\ pc' = "rpc") => (Accepting(CurPort) /\ calls' = calls /\ ~running')
        /\ (calls' # calls /\ calls' # <<>>
              /\ calls'[Len(calls')].method = "aria2.getVersion") =>
              (pc = "rpc" /\ calls'[Len(calls')].token = Token(secret))
        /\ (~running /\ running') =>
              /\ pc = "rpc"
              /\ Accepting(CurPort)
              /\ calls'[Len(calls')].method = "aria2.getVersion"
              /\ calls'[Len(calls')].reply = "version"
              /\ proc' = Some(cur)
              /\ port' = Some(CurPort)
              /\ client' = Some(CurPort)
              /\ result' = Returned("start", None)
      ]_vars

\* C19 witness: start() has succeeded with an authenticated handshake.
C19_Witness ==
    /\ pc = "idle"
    /\ running
    /\ result = Returned("start", None)
    /\ calls # <<>>
    /\ calls[Len(calls)].method = "aria2.getVersion"
    /\ calls[Len(calls)].reply = "version"
    /\ calls[Len(calls)].token = Some("token:s3cret")
    /\ Alive(cur)
    /\ procs[cur].listening

\* The reply is a dict that has a version field.
VersionDict(reply) == reply.kind = "value" /\ reply.type = "dict" /\ "version" \in reply.keys

SentTo(pid, sig) == \E i \in DOMAIN signals : signals[i] = [pid |-> pid, sig |-> sig]

\* C21: _kill starts with terminate() and then waits; the handler that sends
\* the forced kill is entered only from a terminate() that raised or from a
\* wait that timed out with the process still there, and a wait that times
\* out always enters it; SIGKILL is sent in no other step, at most once, and
\* to a live process only; _kill always returns normally, also when kill()
\* itself raised; and a call on a process that has already exited sends no
\* signal, never enters the handler and changes no process.
C21_KillEscalates ==
    [][ /\ (pc = "idle" /\ op' = "_kill") => (pc' = "terminate" /\ signals' = <<>>)
        /\ (pc = "terminate" /\ pc' # pc) =>
              \/ /\ pc' = "wait"
                 /\ signals' = (IF Alive(Held) THEN <<[pid |-> Held, sig |-> "TERM"]>> ELSE <<>>)
              \/ /\ pc' = "kill" /\ signals' = signals /\ Alive(Held)
        /\ (pc = "wait" /\ pc' # pc) =>
              IF Alive(Held) THEN pc' = "kill" /\ result' = result
              ELSE pc' = "idle" /\ result' = Returned("_kill", None)
        /\ (pc' = "kill" /\ pc # "kill") => pc \in {"terminate", "wait"}
        /\ (op = "_kill" /\ signals' # signals /\ signals'[Len(signals')].sig = "KILL") =>
              /\ pc = "kill"
              /\ Alive(Held)
              /\ ~SentTo(Held, "KILL")
              /\ ~procs'[Held].alive
        /\ (pc = "kill" /\ pc' # pc) => (pc' = "idle" /\ result' = Returned("_kill", None))
        /\ (result' # result /\ result'.op = "_kill") => result'.status = "ok"
        /\ (op = "_kill" /\ ~Alive(Held)) =>
              (signals' = signals /\ procs' = procs /\ pc' \in {"wait", "idle"})
      ]_vars

\* C21 witness: a second call of _kill has returned without sending anything,
\* on a process that the first call had to kill.
C21_Witness ==
    /\ result = Returned("_kill", None)
    /\ signals = <<>>
    /\ proc # None
    /\ Held \in Pids
    /\ procs[Held].rc = Some(-9)

\* How far the orchestrator has seen task g get: 0 unknown, 1 waiting,
\* 2 active, 3 stopped.
LocalRank(ts, ps, g) ==
    IF g \in ps THEN 3
    ELSE IF g \notin DOMAIN ts THEN 0
    ELSE IF ts[g].description.label = "WAITING" THEN 1
    ELSE 2

\* The GIDs of a set of reported structs.
GidsOf(entries) == {e.gid : e \in entries}

\* C22: within a session, a GID processed as stopped stays processed and no
\* step changes its tracker or gives it one; a tracker is never dropped, so a
\* GID gets at most one; what the orchestrator has seen of a task only moves
\* forward through unknown, waiting, active, stopped; and when a poll returns,
\* every GID that was in its active (or waiting) snapshot and is in its
\* stopped reply is in exactly one of completed and failed, with the reported
\* status in the record, and its tracker is stopped and labelled with that
\* status.
C22_ForwardOnly ==
    [][ /\ \A g \in processed_stopped :
              /\ g \in processed_stopped'
              /\ (g \in Keys(tasks)) <=> (g \in Keys(tasks'))
              /\ g \in Keys(tasks) => tasks'[g] = tasks[g]
        /\ Keys(tasks) \subseteq Keys(tasks')
        /\ \A g \in GIDS :
              LocalRank(tasks', processed_stopped', g) >= LocalRank(tasks, processed_stopped, g)
        /\ PollReturns =>
              \A e \in TellStoppedReply :
                 e.gid \in GidsOf(snap_active) \cup GidsOf(snap_waiting) =>
                    /\ (e.gid \in Keys(completed')) # (e.gid \in Keys(failed'))
                    /\ (IF e.gid \in Keys(completed') THEN completed'[e.gid]
                        ELSE failed'[e.gid]).status = e.status
                    /\ e.gid \in Keys(tasks')
                    /\ tasks'[e.gid].stopped
                    /\ tasks'[e.gid].description.label = Upper(e.status)
      ]_vars

\* C22 witness: a poll has returned whose active snapshot and stopped reply
\* both held a GID, now recorded as failed with its tracker stopped, while a
\* GID processed by an earlier poll has no tracker.
C22_Witness ==
    /\ Len(calls) = 3
    /\ calls[1].method = "aria2.tellActive"
    /\ calls[3].method = "aria2.tellStopped"
    /\ poll_ret # None
    /\ \E g \in GidsOf(calls[1].reply) \cap GidsOf(calls[3].reply) :
         /\ g \in Keys(failed)
         /\ g \in Keys(tasks)
         /\ tasks[g].stopped
         /\ tasks[g].description.label = "ERROR"
    /\ \E g \in processed_stopped : g \notin Keys(tasks)

C24_NeverStalled == \A pid \in Pids : ~Stalled(pid)

\* C25 (as claimed): when start() succeeds, the task map and the completed,
\* failed and processed collections are empty, whatever an earlier session on
\* the same orchestrator left; and when a poll returns, every GID of its
\* tellStopped reply has the record of the status reported by that reply.
C25_ColdStart ==
    [][ /\ (~running /\ running') =>
              /\ tasks' = EmptyMap
              /\ completed' = EmptyMap
              /\ failed' = EmptyMap
              /\ processed_stopped' = {}
        /\ PollReturns =>
              \A e \in TellStoppedReply :
                 \/ e.gid \in Keys(completed') /\ completed'[e.gid].status = e.status
                 \/ e.gid \in Keys(failed') /\ failed'[e.gid].status = e.status
      ]_vars

\* The spawned processes that are alive.
AlivePids(ps) == {pid \in DOMAIN ps : ps[pid].alive}

\* The error a launch attempt fails with at each of its positions.
FailureKind(p) ==
    CASE p = "spawn" -> "not_found"
      [] p = "early" -> "exited_early"
      [] p = "tcp" -> "tcp_not_ready"
      [] OTHER -> "rpc_not_ready"

C27_NoOrphan ==
    pc = "idle" => \A pid \in AlivePids(procs) : running /\ proc = Some(pid)

\* The step is an aria2.addUri call of add_urls that the subprocess answers
\* with a fault.
AddCallFaults ==
    /\ pc = "add"
    /\ calls' # calls
    /\ calls' # <<>>
    /\ calls'[Len(calls')].method = "aria2.addUri"
    /\ calls'[Len(calls')].reply = 0

\* C28: when an aria2.addUri call of add_urls is answered with a fault,
\* add_urls raises at that step; whenever add_urls raises (the call was
\* refused or not answered) it is the communication failure, with no value
\* returned and the GIDs collected so far not added to those handed to the
\* caller; the step leaves the remote queue as it was
\* (the tasks submitted before stay, nothing more is submitted) and the
\* orchestrator's collections unchanged; and whenever a later poll returns,
\* every GID of its tellStopped reply is recorded in completed or failed,
\* whether or not add_urls ever returned it.
C28_PartialBatch ==
    [][ /\ AddCallFaults => result'.status = "raise"
        /\ (pc = "add" /\ result' # result /\ result'.status = "raise") =>
              /\ pc' = "idle"
              /\ result'.op = "add_urls"
              /\ result'.err.kind = "rpc_communication"
              /\ result'.value = None
              /\ session_gids' = session_gids
              /\ remote' = remote
              /\ submitted' = submitted
              /\ UNCHANGED <<orch, colls>>
        /\ PollReturns =>
              \A e \in TellStoppedReply :
                 (e.gid \in Keys(completed')) # (e.gid \in Keys(failed'))
      ]_vars

\* C28 witness: a poll has recorded as complete a task whose GID was assigned
\* in a batch that failed on a later URL and was never returned by add_urls.
C28_Witness ==
    /\ running
    /\ poll_ret # None
    /\ \E g \in Keys(completed) : g \notin session_gids

\* wait_for_completion is inside one of its polls.
Waiting == op = "wait_for_completion" /\ pc \in {"tellActive", "tellWaiting", "tellStopped"}

\* C29: while wait_for_completion is looping, a poll whose call is not
\* answered (the subprocess died) or breaks ends wait_for_completion at that
\* step: it raises, never goes on to the next call and never returns; and
\* whenever wait_for_completion raises, the error is the communication
\* failure, the progress display is stopped and the four collections are
\* untouched, so get_results() still hands out the records.
C29_WaitEndsWithRpcError ==
    [][ /\ (Waiting /\ ~RpcUp /\ ctl' # ctl) =>
              /\ result'.status = "raise"
              /\ result'.op = "wait_for_completion"
              /\ pc' = "idle"
        /\ (Waiting /\ result' # result /\ result'.status = "raise") =>
              /\ result'.err.kind = "rpc_communication"
              /\ progress_started' = FALSE
              /\ pc' = "idle"
              /\ UNCHANGED colls
      ]_vars

\* wait_for_completion has returned.
WaitReturned == result.op = "wait_for_completion" /\ result.status = "ok"

\* C30: when the subprocess stays up, answers every call and brings every
\* submitted task to a stopped status, a wait_for_completion that was called
\* eventually returns; and when no task was ever submitted, the first poll
\* (the one of the loop) ends the loop and the second (the final one) returns
\* two empty collections: two polls exactly.
C30_WaitTerminates ==
    /\ (op = "wait_for_completion") ~> WaitReturned
    /\ [][ (op = "wait_for_completion" /\ pc = "tellStopped" /\ submitted = 0 /\ ctl' # ctl) =>
              IF phase = "loop"
              THEN /\ phase' = "final"
                   /\ pc' = "tellActive"
                   /\ op' = op
              ELSE /\ phase = "final"
                   /\ pc' = "idle"
                   /\ result' = Returned("wait_for_completion",
                                         [completed |-> {}, failed |-> {}])
         ]_vars

\* C30 witness: wait_for_completion has returned after every task that was
\* submitted stopped, with a record for each of them.
C30_Witness ==
    /\ WaitReturned
    /\ submitted = MaxTasks
    /\ \A g \in GIDS : remote[g] \in {"none", "complete", "error"}
    /\ Cardinality(result.value.completed) + Cardinality(result.value.failed) = submitted

====
